---- MODULE Spec2Model ----
(***************************************************************************)
(* Firestore event store (emmett-google-firestore): the versioned append   *)
(* protocol of FirestoreEventStoreImpl on top of Firestore transactions.   *)
(*                                                                         *)
(* The store state is the three kinds of documents the code writes:        *)
(*   /streams/{streamName}                 stream metadata                 *)
(*   /streams/{streamName}/events/{key}    event documents                 *)
(*   /_counters/global_position            the global counter              *)
(* Every appendToStream call is a process that walks through the awaits of *)
(* appendToStream / appendToStreamInTransaction.                           *)
(***************************************************************************)
EXTENDS Integers, Sequences, FiniteSets, TLC

(***************************************************************************)
(* Bounds of the model                                                     *)
(***************************************************************************)
\* largest events array passed to one appendToStream call
MaxBatch == 2
\* largest exact expectedStreamVersion a caller passes
MaxExpected == 1
\* Timestamp.now() returns a value of 1..MaxTime
MaxTime == 2
\* the appends to different streams: at most this many run at a time
MaxInFlight == 3
\* largest from / to passed to readStream
MaxRead == 2
\* largest maxCount passed to readStream
MaxCount == 1
\* largest batchSize passed to clearFirestore
MaxBatchSize == 2

(***************************************************************************)
(* Program constants                                                       *)
(***************************************************************************)
\* padVersion pads to this width
PadWidth == 10
\* attempts of Firestore.runTransaction (called without options: the default)
MaxAttempts == 5

\* the appendToStream calls that may run, concurrently or in sequence
CallIds == {1, 2}
\* the calls of the specification of racing appends
RaceCallIds == {1, 2, 3, 4}
Streams == {"s1", "s2"}
\* the calls of the specification of appends to different streams, and the
\* stream of each: `User-Concurrent-${i}`
ContendedCallIds == {1, 2, 3, 4, 5, 6}
ContendedStreams == <<"u1", "u2", "u3", "u4", "u5", "u6">>
\* the calls that race to create one stream, and the stream
CreateCallIds == {1, 2, 3}
NewStream == "s1"
Times == 1..MaxTime
\* the readStream / aggregateStream calls that may be made
ReadIds == {1}

(***************************************************************************)
(* Expected-version markers and current versions.  A marker is a record    *)
(* with a tag; the numeric variant carries the number in n.                *)
(***************************************************************************)
NO_CONCURRENCY_CHECK == [tag |-> "NO_CONCURRENCY_CHECK", n |-> 0]
STREAM_DOES_NOT_EXIST == [tag |-> "STREAM_DOES_NOT_EXIST", n |-> 0]
STREAM_EXISTS == [tag |-> "STREAM_EXISTS", n |-> 0]
\* options.expectedStreamVersion left out by the caller
Omitted == [tag |-> "undefined", n |-> 0]
\* BigInt(v)
BigInt(v) == [tag |-> "bigint", n |-> v]

\* the markers of the racing appends: no check, exactly 0
RaceInputs == {NO_CONCURRENCY_CHECK, BigInt(0)}

ExpectedInputs ==
    {Omitted, NO_CONCURRENCY_CHECK, STREAM_DOES_NOT_EXIST, STREAM_EXISTS}
        \cup {BigInt(v) : v \in 0..MaxExpected}

\* a document that does not exist (DocumentSnapshot.exists = false)
NoDoc == [exists |-> FALSE]

(***************************************************************************)
(* utils.ts                                                                *)
(***************************************************************************)
DigitChars == <<"0", "1", "2", "3", "4", "5", "6", "7", "8", "9">>

\* Number.prototype.toString for an integer, as a sequence of characters
RECURSIVE NumberToString(_)
NumberToString(v) ==
    IF v < 0 THEN <<"-">> \o NumberToString(-v)
    ELSE IF v < 10 THEN <<DigitChars[v + 1]>>
    ELSE NumberToString(v \div 10) \o <<DigitChars[(v % 10) + 1]>>

\* String.prototype.padStart(width, ch)
RECURSIVE PadStart(_, _, _)
PadStart(s, width, ch) ==
    IF Len(s) >= width THEN s ELSE PadStart(<<ch>> \o s, width, ch)

padVersion(version) == PadStart(NumberToString(version), PadWidth, "0")

\* the versions beyond 2^31 - 1, written hi * 10^WideDigits + lo with
\* 0 <= lo < 10^WideDigits: their toString and their padVersion
WideDigits == 5
WideBase == 100000
WideNumberToString(hi, lo) ==
    IF hi = 0 THEN NumberToString(lo)
    ELSE NumberToString(hi) \o PadStart(NumberToString(lo), WideDigits, "0")
padWideVersion(hi, lo) == PadStart(WideNumberToString(hi, lo), PadWidth, "0")

\* an optional number: {} is undefined, {v} is the number v
Undefined == {}
Some(v) == {v}
TheValue(opt) == CHOOSE v \in opt : TRUE

\* (mutant) a record without a version counts as no stream
getCurrentStreamVersionOrSentinel(streamExists, version) ==
    IF ~streamExists \/ version = Undefined THEN STREAM_DOES_NOT_EXIST
    ELSE BigInt(TheValue(version))

\* getCurrentStreamVersion(streamExists, version); version is optional
getCurrentStreamVersion(streamExists, version) ==
    IF ~streamExists THEN STREAM_DOES_NOT_EXIST
    ELSE IF version = Undefined THEN BigInt(-1)
    ELSE BigInt(TheValue(version))

\* (mutant) a new stream is given the number of its events as its version
calculateNextVersionCounting(currentVersion, eventCount) ==
    IF currentVersion = STREAM_DOES_NOT_EXIST THEN BigInt(eventCount)
    ELSE BigInt(currentVersion.n + BigInt(eventCount).n)

\* calculateNextVersion(currentVersion, eventCount)
calculateNextVersion(currentVersion, eventCount) ==
    IF currentVersion = STREAM_DOES_NOT_EXIST THEN BigInt(eventCount - 1)
    ELSE BigInt(currentVersion.n + BigInt(eventCount).n)

\* (mutant) an exact expected version is compared as a number only, so that
\* the does-not-exist sentinel passes for the number it is stored as
assertNumbersOnly(expectedVersion, currentVersion) ==
    IF expectedVersion = NO_CONCURRENCY_CHECK THEN TRUE
    ELSE IF expectedVersion = STREAM_DOES_NOT_EXIST
        THEN ~(currentVersion # STREAM_DOES_NOT_EXIST)
    ELSE IF expectedVersion = STREAM_EXISTS
        THEN ~(currentVersion = STREAM_DOES_NOT_EXIST)
    ELSE ~(currentVersion.n # expectedVersion.n)

\* (mutant) an exact expected version only requires the stream to exist
assertStreamExistsOnly(expectedVersion, currentVersion) ==
    IF expectedVersion = NO_CONCURRENCY_CHECK THEN TRUE
    ELSE IF expectedVersion = STREAM_DOES_NOT_EXIST
        THEN ~(currentVersion # STREAM_DOES_NOT_EXIST)
    ELSE ~(currentVersion = STREAM_DOES_NOT_EXIST)

\* (mutant) STREAM_DOES_NOT_EXIST is not checked
assertNothingForNewStream(expectedVersion, currentVersion) ==
    IF expectedVersion = NO_CONCURRENCY_CHECK THEN TRUE
    ELSE IF expectedVersion = STREAM_DOES_NOT_EXIST THEN TRUE
    ELSE IF expectedVersion = STREAM_EXISTS
        THEN ~(currentVersion = STREAM_DOES_NOT_EXIST)
    ELSE ~(currentVersion = STREAM_DOES_NOT_EXIST
            \/ currentVersion # BigInt(expectedVersion.n))

\* assertExpectedVersionMatchesCurrent: TRUE when it returns, FALSE when it
\* throws ExpectedVersionConflictError(streamName, expected, current)
assertExpectedVersionMatchesCurrent(expectedVersion, currentVersion) ==
    IF expectedVersion = NO_CONCURRENCY_CHECK THEN TRUE
    ELSE IF expectedVersion = STREAM_DOES_NOT_EXIST
        THEN ~(currentVersion # STREAM_DOES_NOT_EXIST)
    ELSE IF expectedVersion = STREAM_EXISTS
        THEN ~(currentVersion = STREAM_DOES_NOT_EXIST)
    ELSE ~(currentVersion = STREAM_DOES_NOT_EXIST
            \/ currentVersion # BigInt(expectedVersion.n))

\* (mutant) the constructor stores expected and actual the wrong way round
ExpectedVersionConflictErrorSwapped(streamName, expected, actual) ==
    [name |-> "ExpectedVersionConflictError", streamName |-> streamName,
     expected |-> actual, actual |-> expected]

\* new ExpectedVersionConflictError(streamName, expected, actual)
ExpectedVersionConflictError(streamName, expected, actual) ==
    [name |-> "ExpectedVersionConflictError", streamName |-> streamName,
     expected |-> expected, actual |-> actual]

(***************************************************************************)
(* Inputs of appendToStream                                                *)
(***************************************************************************)
\* the i-th event (from 1) of the batch that call c passes: UserRegistered
\* first, UserEmailChanged after it, as in the tests; the payload names the
\* call and the position, and every second event carries user metadata
InputEvent(c, i) ==
    IF i % 2 = 1
        THEN [type |-> "UserRegistered", data |-> <<c, i>>]
        ELSE [type |-> "UserEmailChanged", data |-> <<c, i>>,
              metadata |-> [correlationId |-> c]]

Batch(c, k) == [i \in 1..k |-> InputEvent(c, i)]

(***************************************************************************)
(* State                                                                   *)
(***************************************************************************)
VARIABLES
    streamDocs,   \* /streams/{streamName}: metadata document or NoDoc
    eventDocs,    \* /streams/{streamName}/events: key -> event document
    counterDoc,   \* /_counters/global_position, or NoDoc
    call,         \* the appendToStream calls: position, arguments, locals
    ghost,        \* per call: what it saw at invocation, what it did to the store
    commitLog,    \* the committed appends, in commit order
    reads,        \* the readStream / aggregateStream calls and their results
    logger,       \* options.observability.logger of the instrumented store
    logs,         \* the calls made to the logger, and what each catch block caught
    padded,       \* two versions and the event keys padVersion gave them
    clearing      \* the clearFirestore call of the testing utilities

store == <<streamDocs, eventDocs, counterDoc>>
vars == <<streamDocs, eventDocs, counterDoc, call, ghost, commitLog, reads,
          logger, logs, padded, clearing>>

NoResult == [status |-> "pending"]
Fulfilled(value) == [status |-> "fulfilled", value |-> value]
Rejected(reason) == [status |-> "rejected", reason |-> reason]

EmptyArrayError == [name |-> "Error", message |-> "Cannot append empty event array"]
\* the error of a transaction that Firestore gave up on after MaxAttempts
AbortedError == [name |-> "Error", code |-> "ABORTED"]

IdleCall ==
    [pc |-> "idle", streamName |-> "", events |-> <<>>, options |-> Omitted,
     expectedStreamVersion |-> Omitted, attempt |-> 0,
     streamDoc |-> NoDoc, counterSnap |-> NoDoc, writes |-> <<>>,
     return |-> <<>>, result |-> NoResult]

IdleGhost ==
    [startVersion |-> STREAM_DOES_NOT_EXIST, prior |-> {}, io |-> FALSE,
     wrote |-> FALSE]

\* a readStream or aggregateStream call that has not been made; `at` is the
\* number of appends that had committed when its query ran
IdleRead ==
    [pc |-> "idle", op |-> "", streamName |-> "", options |-> <<>>,
     result |-> NoResult, at |-> 0]

\* the promise of a call settles: its locals are gone, the arguments and the
\* result stay for the caller
Settled(me, result) ==
    [IdleCall EXCEPT !.pc = "done", !.streamName = me.streamName,
                     !.events = me.events, !.options = me.options,
                     !.result = result]

\* options.observability?.logger is undefined: no logger was configured
NoLogger == [configured |-> FALSE]
\* nothing was logged and no catch block ran
NoLogs == [store |-> <<>>, call |-> <<>>, read |-> <<>>]
\* padVersion has not been evaluated on its own
NotPadded == [pc |-> "idle"]
\* clearFirestore has not been called
NotClearing ==
    [pc |-> "idle", op |-> "", batchSize |-> 0, collections |-> <<>>,
     promises |-> <<>>]
\* the calls of the event store leave the testing utilities alone
EventStoreOnly == UNCHANGED <<padded, clearing>>
\* the plain store of firestoreEventStore.ts has no logger and logs nothing
PlainStore == UNCHANGED <<logger, logs>> /\ EventStoreOnly

Init ==
    /\ streamDocs = [s \in Streams |-> NoDoc]
    /\ eventDocs = [s \in Streams |-> <<>>]
    /\ counterDoc = NoDoc
    /\ call = [c \in CallIds |-> IdleCall]
    /\ ghost = [c \in CallIds |-> IdleGhost]
    /\ commitLog = <<>>
    /\ reads = [r \in ReadIds |-> IdleRead]
    /\ logger = NoLogger
    /\ logs = NoLogs
    /\ padded = NotPadded
    /\ clearing = NotClearing

\* the ghost of call c after a step of c on the store (a read, or a commit)
GhostStep(c) ==
    ghost' = [ghost EXCEPT ![c].io = TRUE,
                           ![c].wrote = @ \/ (store' # store)]

(***************************************************************************)
(* appendToStreamInTransaction, the synchronous pieces                     *)
(***************************************************************************)
\* streamData?.version of a snapshot of the stream metadata
SnapshotVersion(streamDoc) ==
    IF streamDoc.exists /\ "version" \in DOMAIN streamDoc
        THEN Some(streamDoc.version) ELSE Undefined

\* const currentVersion = getCurrentStreamVersion(streamExists, streamData?.version)
CurrentVersion(streamDoc) ==
    getCurrentStreamVersion(streamDoc.exists, SnapshotVersion(streamDoc))

\* counterDoc.exists ? (counterDoc.data()?.value as number) ?? 0 : 0
CounterValue(counterSnap) ==
    IF counterSnap.exists
        THEN IF "value" \in DOMAIN counterSnap THEN counterSnap.value ELSE 0
        ELSE 0

\* currentVersion === STREAM_DOES_NOT_EXIST ? -1 : Number(currentVersion)
BaseVersion(currentVersion) ==
    IF currentVersion = STREAM_DOES_NOT_EXIST THEN -1 ELSE currentVersion.n

\* (mutant) the first new event takes the version of the last stored one
EventVersionFromBase(baseVersion, index) == baseVersion + index

\* const eventVersion = baseVersion + 1 + index   (index from 0)
EventVersion(baseVersion, index) == baseVersion + 1 + index

\* (mutant) every event of the batch takes the counter value that was read
EventGlobalPositionOfBatch(globalPosition, index) == globalPosition

\* globalPosition: globalPosition++   (the value written for the event at index)
EventGlobalPosition(globalPosition, index) == globalPosition + index

\* const eventDocument: EventDocument = {...}
EventDocument(event, now, globalPosition, eventVersion) ==
    IF "metadata" \in DOMAIN event
        THEN [type |-> event.type, data |-> event.data, metadata |-> event.metadata,
              timestamp |-> now, globalPosition |-> globalPosition,
              streamVersion |-> eventVersion]
        ELSE [type |-> event.type, data |-> event.data,
              timestamp |-> now, globalPosition |-> globalPosition,
              streamVersion |-> eventVersion]

\* (mutant) the document key is the index of the event in the batch
EventWritesKeyedByIndex(events, baseVersion, globalPosition, now) ==
    [k \in {padVersion(i - 1) : i \in 1..Len(events)} |->
        LET i == CHOOSE j \in 1..Len(events) : padVersion(j - 1) = k
        IN EventDocument(events[i], now,
                         EventGlobalPosition(globalPosition, i - 1),
                         EventVersion(baseVersion, i - 1))]

\* events.forEach(...): the transaction.set calls on the events subcollection,
\* as key -> document; a later set on the same key replaces an earlier one
EventWrites(events, baseVersion, globalPosition, now) ==
    LET KeyOf(i) == padVersion(EventVersion(baseVersion, i - 1))
        keys == {KeyOf(i) : i \in 1..Len(events)}
        Last(k) == CHOOSE i \in 1..Len(events) :
                       /\ KeyOf(i) = k
                       /\ \A j \in 1..Len(events) : KeyOf(j) = k => j <= i
    IN [k \in keys |->
            EventDocument(events[Last(k)], now,
                          EventGlobalPosition(globalPosition, Last(k) - 1),
                          EventVersion(baseVersion, Last(k) - 1))]

\* (mutant) the new version counts the events instead of naming the last one
NewVersionAsCount(baseVersion, events) == baseVersion + 1 + Len(events)

\* const newVersion = baseVersion + events.length
NewVersion(baseVersion, events) == baseVersion + Len(events)

\* (mutant) the metadata stores the number of events instead of the version
UpdatedMetadataWithCount(streamDoc, newVersion, now) ==
    [exists |-> TRUE, version |-> newVersion + 1,
     createdAt |-> IF streamDoc.exists /\ "createdAt" \in DOMAIN streamDoc
                       THEN streamDoc.createdAt ELSE now,
     updatedAt |-> now]

\* (mutant) createdAt is stamped anew by every append
UpdatedMetadataStampingCreatedAt(streamDoc, newVersion, now) ==
    [exists |-> TRUE, version |-> newVersion, createdAt |-> now,
     updatedAt |-> now]

\* const updatedMetadata: StreamMetadata = {...}
UpdatedMetadata(streamDoc, newVersion, now) ==
    [exists |-> TRUE, version |-> newVersion,
     createdAt |-> IF streamDoc.exists /\ "createdAt" \in DOMAIN streamDoc
                       THEN streamDoc.createdAt ELSE now,
     updatedAt |-> now]

\* (mutant) the counter is written back as it was read
CounterWriteNotAdvanced(globalPosition, events, now) ==
    [exists |-> TRUE, value |-> globalPosition, updatedAt |-> now]

\* transaction.set(counterRef, { value: globalPosition, updatedAt: now }), after
\* the forEach has incremented globalPosition once per event
CounterWrite(globalPosition, events, now) ==
    [exists |-> TRUE, value |-> globalPosition + Len(events), updatedAt |-> now]

\* (mutant) createdNewStream is reported without the negation
AppendResultNotNegated(newVersion, streamExists) ==
    [nextExpectedStreamVersion |-> BigInt(newVersion).n,
     createdNewStream |-> streamExists]

\* return { nextExpectedStreamVersion: BigInt(newVersion), createdNewStream: !streamExists }
AppendResult(newVersion, streamExists) ==
    [nextExpectedStreamVersion |-> BigInt(newVersion).n,
     createdNewStream |-> ~streamExists]

(***************************************************************************)
(* Firestore.runTransaction as appendToStream uses it: the update function *)
(* reads through the transaction, its writes are buffered, and the commit  *)
(* applies all of them or none.  The commit is refused when a document the *)
(* transaction read has been written since; the function is then run again *)
(* (up to MaxAttempts times).  An error thrown by the function itself      *)
(* rolls the transaction back and rejects the call with that error.        *)
(***************************************************************************)
\* (mutant) the commit is applied without looking at the documents that were read
ReadSetNotValidated(streamDoc, counterSnap, streamNow, counterNow) == TRUE

\* the documents the transaction read are still as it read them
ReadSetUnchanged(streamDoc, counterSnap, streamNow, counterNow) ==
    /\ streamNow = streamDoc
    /\ counterNow = counterSnap

\* (mutant) the counter is not among the writes of the transaction
CommitWritesWithoutCounter(streamName, writes) ==
    /\ eventDocs' = [eventDocs EXCEPT ![streamName] = writes.events @@ @]
    /\ streamDocs' = [streamDocs EXCEPT ![streamName] = writes.metadata]
    /\ counterDoc' = counterDoc

\* (mutant) the events subcollection is replaced by the new documents
CommitWritesReplacingEvents(streamName, writes) ==
    /\ eventDocs' = [eventDocs EXCEPT ![streamName] = writes.events]
    /\ streamDocs' = [streamDocs EXCEPT ![streamName] = writes.metadata]
    /\ counterDoc' = writes.counter

\* the commit of the buffered writes of one transaction
CommitWrites(streamName, writes) ==
    /\ eventDocs' = [eventDocs EXCEPT ![streamName] = writes.events @@ @]
    /\ streamDocs' = [streamDocs EXCEPT ![streamName] = writes.metadata]
    /\ counterDoc' = writes.counter

(***************************************************************************)
(* appendToStream(streamName, events, { expectedStreamVersion })           *)
(***************************************************************************)
\* options.expectedStreamVersion with its default
ExpectedOrDefault(expected) ==
    IF expected = Omitted THEN NO_CONCURRENCY_CHECK ELSE expected

\* the appends to the stream that have succeeded by now
PriorAppends(streamName) ==
    {d \in DOMAIN call :
        /\ call[d].pc = "done"
        /\ call[d].result.status = "fulfilled"
        /\ call[d].streamName = streamName}

\* the call is made: the empty-array check, then runTransaction is entered
\* (the calls are numbered in the order in which they are made)
AppendEvents(c, streamName, events, expected) ==
    /\ call[c].pc = "idle"
    /\ UNCHANGED reads
    /\ \A d \in DOMAIN call : d < c => call[d].pc # "idle"
    /\ LET invoked == [call[c] EXCEPT !.streamName = streamName,
                                      !.events = events,
                                      !.options = expected]
       IN call' = [call EXCEPT ![c] =
               IF Len(events) = 0
                   THEN Settled(invoked, Rejected(EmptyArrayError))
                   ELSE [invoked EXCEPT !.pc = "getStream",
                                        !.expectedStreamVersion =
                                            ExpectedOrDefault(expected),
                                        !.attempt = 1]]
    /\ UNCHANGED <<streamDocs, eventDocs, counterDoc, commitLog>>
    /\ ghost' = [ghost EXCEPT ![c].startVersion =
                                  CurrentVersion(streamDocs[streamName]),
                              ![c].prior = PriorAppends(streamName),
                              ![c].wrote = @ \/ (store' # store)]

\* (mutant) the call enters runTransaction without the empty-array check
AppendToStreamUnchecked(c, streamName, k, expected) ==
    /\ call[c].pc = "idle"
    /\ UNCHANGED reads
    /\ \A d \in DOMAIN call : d < c => call[d].pc # "idle"
    /\ call' = [call EXCEPT ![c] =
           [@ EXCEPT !.streamName = streamName,
                     !.events = Batch(c, k),
                     !.options = expected,
                     !.pc = "getStream",
                     !.expectedStreamVersion = ExpectedOrDefault(expected),
                     !.attempt = 1]]
    /\ UNCHANGED <<streamDocs, eventDocs, counterDoc, commitLog>>
    /\ ghost' = [ghost EXCEPT ![c].startVersion =
                                  CurrentVersion(streamDocs[streamName]),
                              ![c].prior = PriorAppends(streamName),
                              ![c].wrote = @ \/ (store' # store)]

\* the call with the batch of k test events of call c
AppendToStream(c, streamName, k, expected) ==
    AppendEvents(c, streamName, Batch(c, k), expected)

\* await transaction.get(streamRef), then the version check
TxGetStream(c) ==
    /\ call[c].pc = "getStream"
    /\ UNCHANGED reads
    /\ LET streamDoc == streamDocs[call[c].streamName]
           currentVersion == CurrentVersion(streamDoc)
       IN call' = [call EXCEPT ![c] =
               IF assertExpectedVersionMatchesCurrent(
                      call[c].expectedStreamVersion, currentVersion)
                   THEN [@ EXCEPT !.pc = "getCounter", !.streamDoc = streamDoc]
                   ELSE Settled(@, Rejected(ExpectedVersionConflictError(
                                      call[c].streamName,
                                      call[c].expectedStreamVersion,
                                      currentVersion)))]
    /\ UNCHANGED <<streamDocs, eventDocs, counterDoc, commitLog>>
    /\ GhostStep(c)

\* (mutant) the event documents are written with eventRef.set(...) at once
\* instead of transaction.set(eventRef, ...)
TxGetCounterSetsEventsDirectly(c, now) ==
    /\ call[c].pc = "getCounter"
    /\ UNCHANGED reads
    /\ LET me == call[c]
           counterSnap == counterDoc
           globalPosition == CounterValue(counterSnap)
           baseVersion == BaseVersion(CurrentVersion(me.streamDoc))
           newVersion == NewVersion(baseVersion, me.events)
           eventWrites == EventWrites(me.events, baseVersion, globalPosition, now)
       IN /\ call' = [call EXCEPT ![c] =
                 [@ EXCEPT !.pc = "commit",
                           !.counterSnap = counterSnap,
                           !.writes =
                               [events |-> <<>>,
                                metadata |-> UpdatedMetadata(me.streamDoc,
                                                             newVersion, now),
                                counter |-> CounterWrite(globalPosition,
                                                         me.events, now)],
                           !.return = AppendResult(newVersion, me.streamDoc.exists)]]
          /\ eventDocs' = [eventDocs EXCEPT ![me.streamName] = eventWrites @@ @]
    /\ UNCHANGED <<streamDocs, counterDoc, commitLog>>
    /\ GhostStep(c)

\* await transaction.get(counterRef), then the rest of the update function:
\* the writes are buffered in the transaction and the result is returned
TxGetCounter(c, now) ==
    /\ call[c].pc = "getCounter"
    /\ UNCHANGED reads
    /\ LET me == call[c]
           counterSnap == counterDoc
           globalPosition == CounterValue(counterSnap)
           baseVersion == BaseVersion(CurrentVersion(me.streamDoc))
           newVersion == NewVersion(baseVersion, me.events)
       IN call' = [call EXCEPT ![c] =
               [@ EXCEPT !.pc = "commit",
                         !.counterSnap = counterSnap,
                         !.writes =
                             [events |-> EventWrites(me.events, baseVersion,
                                                     globalPosition, now),
                              metadata |-> UpdatedMetadata(me.streamDoc,
                                                           newVersion, now),
                              counter |-> CounterWrite(globalPosition,
                                                       me.events, now)],
                         !.return = AppendResult(newVersion, me.streamDoc.exists)]]
    /\ UNCHANGED <<streamDocs, eventDocs, counterDoc, commitLog>>
    /\ GhostStep(c)

\* (mutant) runTransaction is called with maxAttempts: 1: a refused commit
\* rejects the call at once
TxCommitSingleAttempt(c) ==
    /\ call[c].pc = "commit"
    /\ UNCHANGED reads
    /\ LET me == call[c]
       IN IF ReadSetUnchanged(me.streamDoc, me.counterSnap,
                              streamDocs[me.streamName], counterDoc)
          THEN /\ CommitWrites(me.streamName, me.writes)
               /\ call' = [call EXCEPT ![c] = Settled(@, Fulfilled(me.return))]
               /\ commitLog' = Append(commitLog,
                      [call |-> c, streamName |-> me.streamName,
                       keys |-> DOMAIN me.writes.events])
          ELSE /\ call' = [call EXCEPT ![c] = Settled(@, Rejected(AbortedError))]
               /\ UNCHANGED <<streamDocs, eventDocs, counterDoc, commitLog>>
    /\ GhostStep(c)

\* the commit of the transaction: applied, or refused and the function re-run
TxCommit(c) ==
    /\ call[c].pc = "commit"
    /\ UNCHANGED reads
    /\ LET me == call[c]
       IN IF ReadSetUnchanged(me.streamDoc, me.counterSnap,
                              streamDocs[me.streamName], counterDoc)
          THEN /\ CommitWrites(me.streamName, me.writes)
               /\ call' = [call EXCEPT ![c] = Settled(@, Fulfilled(me.return))]
               /\ commitLog' = Append(commitLog,
                      [call |-> c, streamName |-> me.streamName,
                       keys |-> DOMAIN me.writes.events])
          ELSE /\ call' = [call EXCEPT ![c] =
                      IF me.attempt < MaxAttempts
                          THEN [@ EXCEPT !.pc = "getStream",
                                         !.attempt = @ + 1]
                          ELSE Settled(@, Rejected(AbortedError))]
               /\ UNCHANGED <<streamDocs, eventDocs, counterDoc, commitLog>>
    /\ GhostStep(c)

(***************************************************************************)
(* readStream(streamName, { from, to, maxCount })                          *)
(***************************************************************************)
\* the options of readStream; each is optional
ReadOptions(from, to, maxCount) == [from |-> from, to |-> to, maxCount |-> maxCount]
NoReadOptions == ReadOptions(Undefined, Undefined, Undefined)

\* the value of a character of a document id
CharRank(ch) == CHOOSE r \in 1..Len(DigitChars) : DigitChars[r] = ch

\* document ids in Firestore's order of names
RECURSIVE NameLess(_, _)
NameLess(a, b) ==
    IF Len(a) = 0 THEN Len(b) > 0
    ELSE IF Len(b) = 0 THEN FALSE
    ELSE IF Head(a) = Head(b) THEN NameLess(Tail(a), Tail(b))
    ELSE CharRank(Head(a)) < CharRank(Head(b))

\* .orderBy('streamVersion', 'asc'): by the field, then by document name
RECURSIVE OrderByStreamVersion(_, _)
OrderByStreamVersion(docs, keys) ==
    IF keys = {} THEN <<>>
    ELSE LET first == CHOOSE k \in keys : \A j \in keys \ {k} :
                          \/ docs[k].streamVersion < docs[j].streamVersion
                          \/ /\ docs[k].streamVersion = docs[j].streamVersion
                             /\ NameLess(k, j)
         IN <<docs[first]>> \o OrderByStreamVersion(docs, keys \ {first})

\* (mutant) the upper bound is not applied
QueryEventsWithoutTo(docs, options) ==
    LET matching == {k \in DOMAIN docs :
                        options.from # Undefined =>
                            docs[k].streamVersion >= TheValue(options.from)}
        ordered == OrderByStreamVersion(docs, matching)
    IN IF options.maxCount # Undefined /\ TheValue(options.maxCount) > 0
           THEN SubSeq(ordered, 1,
                       IF TheValue(options.maxCount) < Len(ordered)
                           THEN TheValue(options.maxCount) ELSE Len(ordered))
           ELSE ordered

\* (mutant) the upper bound is applied with '<' instead of '<='
QueryEventsExclusiveTo(docs, options) ==
    LET matching == {k \in DOMAIN docs :
                        /\ options.from # Undefined =>
                               docs[k].streamVersion >= TheValue(options.from)
                        /\ options.to # Undefined =>
                               docs[k].streamVersion < TheValue(options.to)}
        ordered == OrderByStreamVersion(docs, matching)
    IN IF options.maxCount # Undefined /\ TheValue(options.maxCount) > 0
           THEN SubSeq(ordered, 1,
                       IF TheValue(options.maxCount) < Len(ordered)
                           THEN TheValue(options.maxCount) ELSE Len(ordered))
           ELSE ordered

\* the query of readStream on the events subcollection `docs` of a stream
QueryEvents(docs, options) ==
    LET matching == {k \in DOMAIN docs :
                        /\ options.from # Undefined =>
                               docs[k].streamVersion >= TheValue(options.from)
                        /\ options.to # Undefined =>
                               docs[k].streamVersion <= TheValue(options.to)}
        ordered == OrderByStreamVersion(docs, matching)
    IN IF options.maxCount # Undefined /\ TheValue(options.maxCount) > 0
           THEN SubSeq(ordered, 1,
                       IF TheValue(options.maxCount) < Len(ordered)
                           THEN TheValue(options.maxCount) ELSE Len(ordered))
           ELSE ordered

\* (mutant) streamPosition is taken from the global position
ReadEventPositionFromGlobal(streamName, data) ==
    [type |-> data.type,
     data |-> data.data,
     metadata |->
         [streamName |-> streamName,
          streamVersion |-> BigInt(data.streamVersion).n,
          streamPosition |-> BigInt(data.globalPosition).n,
          globalPosition |-> BigInt(data.globalPosition).n,
          timestamp |-> data.timestamp]
         @@ (IF "metadata" \in DOMAIN data THEN data.metadata ELSE <<>>)]

\* (mutant) the user's metadata is spread after the store's fields
ReadEventUserMetadataLast(streamName, data) ==
    [type |-> data.type,
     data |-> data.data,
     metadata |->
         (IF "metadata" \in DOMAIN data THEN data.metadata ELSE <<>>)
         @@ [streamName |-> streamName,
             streamVersion |-> BigInt(data.streamVersion).n,
             streamPosition |-> BigInt(data.streamVersion).n,
             globalPosition |-> BigInt(data.globalPosition).n,
             timestamp |-> data.timestamp]]

\* snapshot.docs.map(...): an event document as readStream returns it
ReadEvent(streamName, data) ==
    [type |-> data.type,
     data |-> data.data,
     metadata |->
         [streamName |-> streamName,
          streamVersion |-> BigInt(data.streamVersion).n,
          streamPosition |-> BigInt(data.streamVersion).n,
          globalPosition |-> BigInt(data.globalPosition).n,
          timestamp |-> data.timestamp]
         @@ (IF "metadata" \in DOMAIN data THEN data.metadata ELSE <<>>)]

\* readStream on the store whose event documents are allDocs
ReadStream(allDocs, streamName, options) ==
    LET found == QueryEvents(allDocs[streamName], options)
    IN [i \in 1..Len(found) |-> ReadEvent(streamName, found[i])]

\* (mutant) the call creates the metadata document of a stream it does not find
ReadStreamCallCreatingStream(r, streamName, options) ==
    /\ reads[r].pc = "idle"
    /\ reads' = [reads EXCEPT ![r] =
           [pc |-> "done", op |-> "readStream", streamName |-> streamName,
            options |-> options,
            result |-> Fulfilled(ReadStream(eventDocs, streamName, options)),
            at |-> Len(commitLog)]]
    /\ streamDocs' = [streamDocs EXCEPT ![streamName] =
           IF @.exists THEN @ ELSE UpdatedMetadata(@, BigInt(0).n, 1)]
    /\ UNCHANGED <<eventDocs, counterDoc, call, ghost, commitLog>>

\* the call: the query is built, `await query.get()` runs it, the documents
\* are mapped; nothing is written
ReadStreamCall(r, streamName, options) ==
    /\ reads[r].pc = "idle"
    /\ reads' = [reads EXCEPT ![r] =
           [pc |-> "done", op |-> "readStream", streamName |-> streamName,
            options |-> options,
            result |-> Fulfilled(ReadStream(eventDocs, streamName, options)),
            at |-> Len(commitLog)]]
    /\ UNCHANGED <<streamDocs, eventDocs, counterDoc, call, ghost, commitLog>>

(***************************************************************************)
(* aggregateStream(streamName, { evolve, initialState, read })             *)
(***************************************************************************)
\* the evolve functions a caller passes: "user" is the UserState projection of
\* the tests, "history" collects the stream versions it is given, in order
Evolves == {"user", "history"}

\* options.initialState()
InitialState(evolve) ==
    IF evolve = "user" THEN [status |-> "Empty"] ELSE <<>>

\* options.evolve(state, event)
Evolve(evolve, state, event) ==
    IF evolve = "user"
        THEN IF event.type = "UserRegistered"
                 THEN [status |-> "Registered", userId |-> event.data,
                       email |-> event.data]
             ELSE IF event.type = "UserEmailChanged"
                 THEN [email |-> event.data] @@ state
             ELSE state
        ELSE Append(state, event.metadata.streamVersion)

\* events.reduce(evolve, initialState): left to right
RECURSIVE Reduce(_, _, _)
Reduce(evolve, events, state) ==
    IF events = <<>> THEN state
    ELSE Reduce(evolve, Tail(events), Evolve(evolve, state, Head(events)))

\* options.read left out by the caller
OmittedRead == [omitted |-> TRUE]
\* readStream(streamName, read) with its default `options = {}`
ReadOrDefault(read) == IF read = OmittedRead THEN NoReadOptions ELSE read

\* (mutant) currentStreamVersion counts the events that were read
AggregateStreamVersionAsCount(allDocs, streamName, evolve, read) ==
    LET events == ReadStream(allDocs, streamName, ReadOrDefault(read))
        streamExists == Len(events) > 0
    IN [state |-> Reduce(evolve, events, InitialState(evolve)),
        currentStreamVersion |-> Len(events),
        streamExists |-> streamExists]

\* (mutant) streamExists tells whether the stream holds any event
AggregateStreamExistsByStore(allDocs, streamName, evolve, read) ==
    LET events == ReadStream(allDocs, streamName, ReadOrDefault(read))
        streamExists == DOMAIN allDocs[streamName] # {}
    IN [state |-> Reduce(evolve, events, InitialState(evolve)),
        currentStreamVersion |->
            IF Len(events) > 0
                THEN events[Len(events)].metadata.streamVersion
                ELSE BigInt(0).n,
        streamExists |-> streamExists]

\* aggregateStream on the store whose event documents are allDocs
AggregateStream(allDocs, streamName, evolve, read) ==
    LET events == ReadStream(allDocs, streamName, ReadOrDefault(read))
        streamExists == Len(events) > 0
    IN [state |-> Reduce(evolve, events, InitialState(evolve)),
        currentStreamVersion |->
            IF streamExists
                THEN events[Len(events)].metadata.streamVersion
                ELSE BigInt(0).n,
        streamExists |-> streamExists]

\* the call: one readStream, then the fold; nothing is written
AggregateStreamCall(r, streamName, evolve, read) ==
    /\ reads[r].pc = "idle"
    /\ reads' = [reads EXCEPT ![r] =
           [pc |-> "done", op |-> "aggregateStream", streamName |-> streamName,
            options |-> [evolve |-> evolve, read |-> read],
            result |-> Fulfilled(AggregateStream(eventDocs, streamName,
                                                 evolve, read)),
            at |-> Len(commitLog)]]
    /\ UNCHANGED <<streamDocs, eventDocs, counterDoc, call, ghost, commitLog>>

\* the read options a caller passes
Optional(values) == {Undefined} \cup {Some(v) : v \in values}
ReadInputs ==
    {ReadOptions(from, to, maxCount) :
        from \in Optional(0..MaxRead), to \in Optional(0..MaxRead),
        maxCount \in Optional(-1..MaxCount)}
\* the read options passed to aggregateStream: left out, a range, a limit
AggregateInputs ==
    {OmittedRead}
        \cup {options \in ReadInputs : options.maxCount = Undefined}
        \cup {ReadOptions(Undefined, Undefined, Some(MaxCount))}

(***************************************************************************)
(* The instrumented event store: the same operations with a logger call    *)
(* before and after each step and a tracing span around each operation.    *)
(* The spans are those of the OpenTelemetry API, which does nothing while   *)
(* no tracer provider is registered; the logger is the caller's object.    *)
(***************************************************************************)
\* interface Logger { debug?, info?, warn?, error? }: for each method of the
\* object that was supplied, whether it is missing, returns, or throws
LoggerMethods == {"absent", "records", "throws"}
Logger(debug, info, warn, error) ==
    [configured |-> TRUE, debug |-> debug, info |-> info, warn |-> warn,
     error |-> error]
\* what a logger method throws when it throws
LoggerError(level) == [name |-> "LoggerError", level |-> level]
\* the error of a query or a transaction that Firestore rejects
StoreError == [name |-> "Error", code |-> "PERMISSION_DENIED"]

\* the loggers a caller configures: none, one with every method, the partial
\* loggers of the tests (only info, only debug), one whose debug method
\* throws, one whose warn and error methods throw
Loggers ==
    {NoLogger,
     Logger("records", "records", "records", "records"),
     Logger("absent", "records", "absent", "absent"),
     Logger("records", "absent", "absent", "absent"),
     Logger("throws", "records", "records", "records"),
     Logger("records", "records", "throws", "throws")}

\* String(expectedStreamVersion), String(error.expected), String(error.actual)
String(version) ==
    IF version.tag = "bigint" THEN NumberToString(version.n) ELSE <<version.tag>>

\* value?.toString() of an optional number
OptionalToString(opt) ==
    IF opt = Undefined THEN Undefined ELSE Some(NumberToString(TheValue(opt)))

\* (mutant) safeLog without `if (!logger) return`: reading a method of the
\* logger that was not configured throws
SafeLogWithoutGuard(lg, level, msg, data) ==
    IF ~lg.configured
        THEN [calls |-> <<>>, thrown |-> {[name |-> "TypeError"]}]
    ELSE IF lg[level] = "absent" THEN [calls |-> <<>>, thrown |-> {}]
    ELSE [calls |-> <<[level |-> level, msg |-> msg, data |-> data]>>,
          thrown |-> IF lg[level] = "throws" THEN {LoggerError(level)} ELSE {}]

\* safeLog(logger, level, msg, data): the calls it makes to the logger and
\* what it throws; there is no try around logFn.call(logger, msg, data)
SafeLog(lg, level, msg, data) ==
    IF ~lg.configured THEN [calls |-> <<>>, thrown |-> {}]
    ELSE IF lg[level] = "absent" THEN [calls |-> <<>>, thrown |-> {}]
    ELSE [calls |-> <<[level |-> level, msg |-> msg, data |-> data]>>,
          thrown |-> IF lg[level] = "throws" THEN {LoggerError(level)} ELSE {}]

\* the state of the logger after construction:
\* safeLog(this.logger, 'info', 'FirestoreEventStore initialized')
ConstructorLogs(lg, callIds, readIds) ==
    [store |-> SafeLog(lg, "info", "FirestoreEventStore initialized", Undefined).calls,
     call |-> [c \in callIds |-> [calls |-> <<>>, caught |-> {}]],
     read |-> [r \in readIds |-> [calls |-> <<>>, caught |-> {}]]]

\* (mutant) the debug call of appendToStream also passes the events
AppendingToStreamWithEvents(streamName, events, expectedStreamVersion) ==
    [streamName |-> streamName,
     eventCount |-> Len(events),
     eventTypes |-> [i \in 1..Len(events) |-> events[i].type],
     events |-> events,
     expectedVersion |-> String(expectedStreamVersion)]

\* the fields of 'Appending to stream'
AppendingToStream(streamName, events, expectedStreamVersion) ==
    [streamName |-> streamName,
     eventCount |-> Len(events),
     eventTypes |-> [i \in 1..Len(events) |-> events[i].type],
     expectedVersion |-> String(expectedStreamVersion)]

\* catch (error) { ... safeLog(...) ... throw error } of appendToStream: the
\* calls to the logger and how the promise settles
AppendCatch(lg, streamName, error) ==
    LET log == IF error.name = "ExpectedVersionConflictError"
                   THEN SafeLog(lg, "warn", "Version conflict during append",
                                [streamName |-> streamName,
                                 expected |-> String(error.expected),
                                 actual |-> String(error.actual)])
                   ELSE SafeLog(lg, "error", "Failed to append to stream",
                                [streamName |-> streamName, error |-> error])
    IN [calls |-> log.calls, caught |-> {error},
        result |-> Rejected(IF log.thrown = {} THEN error
                            ELSE TheValue(log.thrown))]

\* the try block of appendToStream up to a point: `calls` were made to the
\* logger and `thrown` holds what was thrown, if anything; `next` is the call
\* when nothing was thrown
AppendTry(lg, me, calls, thrown, next) ==
    IF thrown = {}
        THEN [call |-> next, calls |-> calls, caught |-> {}]
        ELSE LET handled == AppendCatch(lg, me.streamName, TheValue(thrown))
             IN [call |-> Settled(me, handled.result),
                 calls |-> calls \o handled.calls,
                 caught |-> handled.caught]

\* appendToStream up to runTransaction
ObservedInvoke(lg, invoked) ==
    LET events == invoked.events
        expectedStreamVersion == ExpectedOrDefault(invoked.options)
        begin == SafeLog(lg, "debug", "Appending to stream",
                         AppendingToStream(invoked.streamName, events,
                                           expectedStreamVersion))
    IN IF Len(events) = 0
           THEN AppendTry(lg, invoked, <<>>, {EmptyArrayError}, invoked)
           ELSE AppendTry(lg, invoked, begin.calls, begin.thrown,
                    [invoked EXCEPT !.pc = "getStream",
                                    !.expectedStreamVersion = expectedStreamVersion,
                                    !.attempt = 1])

\* appendToStreamInTransaction from transaction.get(streamRef) to the
\* version check
ObservedGetStream(lg, me, streamDoc) ==
    LET currentVersion == CurrentVersion(streamDoc)
        read == SafeLog(lg, "debug", "Read stream metadata",
                    [streamName |-> me.streamName,
                     exists |-> streamDoc.exists,
                     currentVersion |->
                         IF currentVersion = STREAM_DOES_NOT_EXIST
                             THEN <<"none">>
                             ELSE NumberToString(currentVersion.n)])
        thrown ==
            IF read.thrown # {} THEN read.thrown
            ELSE IF assertExpectedVersionMatchesCurrent(
                        me.expectedStreamVersion, currentVersion) THEN {}
            ELSE {ExpectedVersionConflictError(me.streamName,
                      me.expectedStreamVersion, currentVersion)}
    IN AppendTry(lg, me, read.calls, thrown,
           [me EXCEPT !.pc = "getCounter", !.streamDoc = streamDoc])

\* appendToStreamInTransaction from transaction.get(counterRef) to its return
ObservedGetCounter(lg, me, counterSnap, now) ==
    LET globalPosition == CounterValue(counterSnap)
        baseVersion == BaseVersion(CurrentVersion(me.streamDoc))
        newVersion == NewVersion(baseVersion, me.events)
        written == SafeLog(lg, "debug", "Events written to transaction",
                       [streamName |-> me.streamName,
                        count |-> Len(me.events),
                        newVersion |-> newVersion])
    IN AppendTry(lg, me, written.calls, written.thrown,
           [me EXCEPT !.pc = "commit",
                      !.counterSnap = counterSnap,
                      !.writes =
                          [events |-> EventWrites(me.events, baseVersion,
                                                  globalPosition, now),
                           metadata |-> UpdatedMetadata(me.streamDoc,
                                                        newVersion, now),
                           counter |-> CounterWrite(globalPosition,
                                                    me.events, now)],
                      !.return = AppendResult(newVersion, me.streamDoc.exists)])

\* the commit of the transaction and the rest of appendToStream; `accepted`
\* tells whether Firestore accepts the commit
ObservedCommit(lg, me, accepted) ==
    IF accepted
        THEN LET completed == SafeLog(lg, "debug", "Append completed",
                     [streamName |-> me.streamName,
                      newVersion |->
                          NumberToString(me.return.nextExpectedStreamVersion),
                      createdNewStream |-> me.return.createdNewStream])
             IN AppendTry(lg, me, completed.calls, completed.thrown,
                          Settled(me, Fulfilled(me.return)))
    ELSE IF me.attempt < MaxAttempts
        THEN AppendTry(lg, me, <<>>, {},
                       [me EXCEPT !.pc = "getStream", !.attempt = @ + 1])
    ELSE AppendTry(lg, me, <<>>, {AbortedError}, me)

\* the logger after a step of call c
LoggedCall(c, out) ==
    [logs EXCEPT !.call[c] = [calls |-> @.calls \o out.calls,
                              caught |-> @.caught \cup out.caught]]

\* appendToStream is called
ObservedAppendToStream(c, streamName, k, expected) ==
    /\ call[c].pc = "idle"
    /\ \A d \in DOMAIN call : d < c => call[d].pc # "idle"
    /\ LET out == ObservedInvoke(logger,
                      [call[c] EXCEPT !.streamName = streamName,
                                      !.events = Batch(c, k),
                                      !.options = expected])
       IN /\ call' = [call EXCEPT ![c] = out.call]
          /\ logs' = LoggedCall(c, out)
    /\ UNCHANGED <<streamDocs, eventDocs, counterDoc, commitLog, reads, logger>>
    /\ ghost' = [ghost EXCEPT ![c].startVersion =
                                  CurrentVersion(streamDocs[streamName]),
                              ![c].prior = PriorAppends(streamName),
                              ![c].wrote = @ \/ (store' # store)]

\* await transaction.get(streamRef), the debug call, the version check
ObservedTxGetStream(c) ==
    /\ call[c].pc = "getStream"
    /\ LET out == ObservedGetStream(logger, call[c],
                                    streamDocs[call[c].streamName])
       IN /\ call' = [call EXCEPT ![c] = out.call]
          /\ logs' = LoggedCall(c, out)
    /\ UNCHANGED <<streamDocs, eventDocs, counterDoc, commitLog, reads, logger>>
    /\ GhostStep(c)

\* await transaction.get(counterRef), the buffered writes, the debug call
ObservedTxGetCounter(c, now) ==
    /\ call[c].pc = "getCounter"
    /\ LET out == ObservedGetCounter(logger, call[c], counterDoc, now)
       IN /\ call' = [call EXCEPT ![c] = out.call]
          /\ logs' = LoggedCall(c, out)
    /\ UNCHANGED <<streamDocs, eventDocs, counterDoc, commitLog, reads, logger>>
    /\ GhostStep(c)

\* the commit, then the debug call of appendToStream and its return
ObservedTxCommit(c) ==
    /\ call[c].pc = "commit"
    /\ LET me == call[c]
           accepted == ReadSetUnchanged(me.streamDoc, me.counterSnap,
                                        streamDocs[me.streamName], counterDoc)
           out == ObservedCommit(logger, me, accepted)
       IN /\ call' = [call EXCEPT ![c] = out.call]
          /\ logs' = LoggedCall(c, out)
          /\ IF accepted
                 THEN /\ CommitWrites(me.streamName, me.writes)
                      /\ commitLog' = Append(commitLog,
                             [call |-> c, streamName |-> me.streamName,
                              keys |-> DOMAIN me.writes.events])
                 ELSE UNCHANGED <<streamDocs, eventDocs, counterDoc, commitLog>>
    /\ UNCHANGED <<reads, logger>>
    /\ GhostStep(c)

\* Firestore rejects the transaction at its first read
TxFails(c) ==
    /\ call[c].pc = "getStream"
    /\ call' = [call EXCEPT ![c] = Settled(@, Rejected(StoreError))]
    /\ UNCHANGED <<streamDocs, eventDocs, counterDoc, commitLog, reads>>
    /\ GhostStep(c)

\* the same in the instrumented store: the catch block of appendToStream runs
ObservedTxFails(c) ==
    /\ call[c].pc = "getStream"
    /\ LET out == AppendTry(logger, call[c], <<>>, {StoreError}, call[c])
       IN /\ call' = [call EXCEPT ![c] = out.call]
          /\ logs' = LoggedCall(c, out)
    /\ UNCHANGED <<streamDocs, eventDocs, counterDoc, commitLog, reads, logger>>
    /\ GhostStep(c)

\* readStream of the instrumented store on the event documents allDocs:
\* `rejected` tells whether Firestore rejects query.get()
ObservedReadStream(lg, allDocs, streamName, options, rejected) ==
    LET begin == SafeLog(lg, "debug", "Reading stream",
                     [streamName |-> streamName,
                      from |-> OptionalToString(options.from),
                      to |-> OptionalToString(options.to),
                      maxCount |-> options.maxCount])
        events == ReadStream(allDocs, streamName, options)
        completed == SafeLog(lg, "debug", "Stream read completed",
                         [streamName |-> streamName,
                          eventCount |-> Len(events)])
        thrown == IF begin.thrown # {} THEN begin.thrown
                  ELSE IF rejected THEN {StoreError}
                  ELSE completed.thrown
        calls == IF begin.thrown # {} \/ rejected THEN begin.calls
                 ELSE begin.calls \o completed.calls
    IN IF thrown = {}
           THEN [result |-> Fulfilled(events), calls |-> calls, caught |-> {}]
           ELSE LET error == TheValue(thrown)
                    log == SafeLog(lg, "error", "Failed to read stream",
                                   [streamName |-> streamName, error |-> error])
                IN [result |-> Rejected(IF log.thrown = {} THEN error
                                        ELSE TheValue(log.thrown)),
                    calls |-> calls \o log.calls,
                    caught |-> {error}]

\* aggregateStream of the instrumented store: readStream, then the fold
ObservedAggregateStream(lg, allDocs, streamName, evolve, read, rejected) ==
    LET events == ObservedReadStream(lg, allDocs, streamName,
                                     ReadOrDefault(read), rejected)
    IN IF events.result.status = "fulfilled"
           THEN [events EXCEPT !.result =
                    Fulfilled(AggregateStream(allDocs, streamName, evolve, read))]
           ELSE events

\* the logger after the call r
LoggedRead(r, out) ==
    [logs EXCEPT !.read[r] = [calls |-> @.calls \o out.calls,
                              caught |-> @.caught \cup out.caught]]

\* readStream is called and settles
ObservedReadStreamCall(r, streamName, options, rejected) ==
    /\ reads[r].pc = "idle"
    /\ LET out == ObservedReadStream(logger, eventDocs, streamName, options,
                                     rejected)
       IN /\ reads' = [reads EXCEPT ![r] =
                 [pc |-> "done", op |-> "readStream", streamName |-> streamName,
                  options |-> options, result |-> out.result,
                  at |-> Len(commitLog)]]
          /\ logs' = LoggedRead(r, out)
    /\ UNCHANGED <<streamDocs, eventDocs, counterDoc, call, ghost, commitLog,
                   logger>>

\* aggregateStream is called and settles
ObservedAggregateStreamCall(r, streamName, evolve, read, rejected) ==
    /\ reads[r].pc = "idle"
    /\ LET out == ObservedAggregateStream(logger, eventDocs, streamName,
                                          evolve, read, rejected)
       IN /\ reads' = [reads EXCEPT ![r] =
                 [pc |-> "done", op |-> "aggregateStream",
                  streamName |-> streamName,
                  options |-> [evolve |-> evolve, read |-> read],
                  result |-> out.result,
                  at |-> Len(commitLog)]]
          /\ logs' = LoggedRead(r, out)
    /\ UNCHANGED <<streamDocs, eventDocs, counterDoc, call, ghost, commitLog,
                   logger>>

\* Firestore rejects query.get() of a readStream or aggregateStream call of
\* the plain store: the call is rejected with the store's error
QueryFails(r, op, streamName, options) ==
    /\ reads[r].pc = "idle"
    /\ reads' = [reads EXCEPT ![r] =
           [pc |-> "done", op |-> op, streamName |-> streamName,
            options |-> options, result |-> Rejected(StoreError),
            at |-> Len(commitLog)]]
    /\ UNCHANGED <<streamDocs, eventDocs, counterDoc, call, ghost, commitLog>>

\* the arguments of the calls made on the instrumented store
ObservedStreams == {"s1"}
ObservedExpectedInputs == {Omitted, STREAM_DOES_NOT_EXIST}
ObservedReadInputs == {NoReadOptions, ReadOptions(Some(1), Some(MaxRead), Some(MaxCount))}
ObservedAggregateInputs == {OmittedRead}

(***************************************************************************)
(* The testing utilities: clearFirestore(firestore, batchSize)             *)
(***************************************************************************)
\* the root collections and the documents of /streams in Firestore's order of
\* names
RootCollections == <<"_counters", "streams">>
StreamOrder == <<"s1", "s2">>

\* the documents that exist in a root collection, in order: the documents of
\* the subcollection /streams/{streamName}/events are not among them
RECURSIVE ExistingStreams(_)
ExistingStreams(names) ==
    IF names = <<>> THEN <<>>
    ELSE (IF streamDocs[Head(names)].exists THEN <<Head(names)>> ELSE <<>>)
             \o ExistingStreams(Tail(names))
CollectionDocs(collection) ==
    IF collection = "_counters"
        THEN IF counterDoc.exists THEN <<"global_position">> ELSE <<>>
        ELSE ExistingStreams(StreamOrder)

\* firestore.listCollections(): the root collections that hold something
ListCollections ==
    SelectSeq(RootCollections,
              LAMBDA collection :
                  \/ CollectionDocs(collection) # <<>>
                  \/ collection = "streams"
                         /\ \E s \in DOMAIN eventDocs : DOMAIN eventDocs[s] # {})

\* collectionRef.limit(batchSize).get()
QuerySnapshot(collection, batchSize) ==
    SubSeq(CollectionDocs(collection), 1,
           IF Len(CollectionDocs(collection)) < batchSize
               THEN Len(CollectionDocs(collection)) ELSE batchSize)

\* deleteCollection(firestore, collectionPath, batchSize) is called: the
\* promise it returns, with the calls made to its resolve and reject so far,
\* the batches committed for it, and the documents the collection held
NewPromise(collection) ==
    [collection |-> collection, size |-> Len(CollectionDocs(collection)),
     batches |-> 0, settlements |-> <<>>]

\* resolve(): the promise is fulfilled with no value
Resolved == Fulfilled(Undefined)

\* the promise of the deleteCollection call that is running: the last one
Running(promises) == promises[Len(promises)]

\* the errors that query.get() and batch.commit() reject with
QueryError == [name |-> "Error", code |-> "UNAVAILABLE", from |-> "query.get"]
CommitError == [name |-> "Error", code |-> "ABORTED", from |-> "batch.commit"]

\* clearFirestore is called on a store no call is working on
ClearFirestore(batchSize) ==
    /\ clearing.pc = "idle"
    /\ \A c \in DOMAIN call : call[c].pc \in {"idle", "done"}
    /\ clearing' = [pc |-> IF ListCollections = <<>> THEN "done" ELSE "delete",
                    op |-> "clearFirestore",
                    batchSize |-> batchSize,
                    collections |-> ListCollections,
                    promises |-> IF ListCollections = <<>> THEN <<>>
                                 ELSE <<NewPromise(Head(ListCollections))>>]
    /\ UNCHANGED <<streamDocs, eventDocs, counterDoc, call, ghost, commitLog,
                   reads, logger, logs, padded>>

\* deleteCollection is called by itself on a root collection, empty or not,
\* of a store no call is working on
DeleteCollection(collection, batchSize) ==
    /\ clearing.pc = "idle"
    /\ \A c \in DOMAIN call : call[c].pc \in {"idle", "done"}
    /\ clearing' = [pc |-> "delete",
                    op |-> "deleteCollection",
                    batchSize |-> batchSize,
                    collections |-> <<collection>>,
                    promises |-> <<NewPromise(collection)>>]
    /\ UNCHANGED <<streamDocs, eventDocs, counterDoc, call, ghost, commitLog,
                   reads, logger, logs, padded>>

\* (mutant) the batch is committed and deleteQueryBatch is not scheduled
\* again: the promise is resolved after the first batch
DeleteQueryBatchOnce ==
    /\ clearing.pc = "delete"
    /\ LET collection == Head(clearing.collections)
           snapshot == QuerySnapshot(collection, clearing.batchSize)
           deleted == {snapshot[i] : i \in 1..Len(snapshot)}
           last == Len(clearing.promises)
           next == Tail(clearing.collections)
       IN /\ clearing' =
                 [clearing EXCEPT
                     !.collections = next,
                     !.pc = IF next = <<>> THEN "done" ELSE "delete",
                     !.promises =
                         [@ EXCEPT ![last].settlements = Append(@, Resolved),
                                   ![last].batches =
                                       IF Len(snapshot) = 0 THEN @ ELSE @ + 1]
                             \o (IF next = <<>> THEN <<>>
                                 ELSE <<NewPromise(Head(next))>>)]
          /\ IF Len(snapshot) = 0
                 THEN UNCHANGED <<streamDocs, counterDoc>>
             ELSE IF collection = "_counters"
                 THEN counterDoc' = NoDoc /\ UNCHANGED streamDocs
             ELSE /\ streamDocs' = [s \in DOMAIN streamDocs |->
                                       IF s \in deleted THEN NoDoc ELSE streamDocs[s]]
                  /\ UNCHANGED counterDoc
    /\ UNCHANGED <<eventDocs, call, ghost, commitLog, reads, logger, logs, padded>>

\* deleteQueryBatch on the collection that deleteCollection is working on:
\* the query, then batch.delete(doc.ref) for each document found and
\* batch.commit(), and process.nextTick schedules the next round; an empty
\* snapshot resolves the promise of deleteCollection, and the loop of
\* clearFirestore calls deleteCollection on the next collection
DeleteQueryBatch ==
    /\ clearing.pc = "delete"
    /\ LET collection == Head(clearing.collections)
           snapshot == QuerySnapshot(collection, clearing.batchSize)
           deleted == {snapshot[i] : i \in 1..Len(snapshot)}
           last == Len(clearing.promises)
           next == Tail(clearing.collections)
       IN IF Len(snapshot) = 0
              THEN /\ clearing' =
                          [clearing EXCEPT
                              !.collections = next,
                              !.pc = IF next = <<>> THEN "done" ELSE "delete",
                              !.promises =
                                  [@ EXCEPT ![last].settlements =
                                                Append(@, Resolved)]
                                      \o (IF next = <<>> THEN <<>>
                                          ELSE <<NewPromise(Head(next))>>)]
                   /\ UNCHANGED <<streamDocs, counterDoc>>
          ELSE /\ clearing' = [clearing EXCEPT
                                  !.promises[last].batches = @ + 1]
               /\ IF collection = "_counters"
                      THEN counterDoc' = NoDoc /\ UNCHANGED streamDocs
                      ELSE /\ streamDocs' =
                                  [s \in DOMAIN streamDocs |->
                                      IF s \in deleted THEN NoDoc
                                      ELSE streamDocs[s]]
                           /\ UNCHANGED counterDoc
    /\ UNCHANGED <<eventDocs, call, ghost, commitLog, reads, logger, logs, padded>>

\* query.get() or batch.commit() of a round rejects: the catch block calls
\* reject(error), nothing of the batch is deleted, no further round is
\* scheduled, and the `await deleteCollection(...)` of clearFirestore throws
DeleteQueryBatchFails(error) ==
    /\ clearing.pc = "delete"
    /\ error = CommitError =>
           QuerySnapshot(Head(clearing.collections), clearing.batchSize) # <<>>
    /\ clearing' =
           [clearing EXCEPT
               !.pc = "failed",
               !.promises[Len(clearing.promises)].settlements =
                   Append(@, Rejected(error))]
    /\ UNCHANGED <<streamDocs, eventDocs, counterDoc, call, ghost, commitLog,
                   reads, logger, logs, padded>>

(***************************************************************************)
(* Specifications                                                          *)
(***************************************************************************)
\* the calls of CallIds with every kind of argument: empty batches, the marker
\* left out, each marker, exact versions up to MaxExpected, different timestamps
Next ==
    \/ \E c \in DOMAIN call, streamName \in Streams, k \in 0..MaxBatch,
          expected \in ExpectedInputs :
           /\ AppendToStream(c, streamName, k, expected)
           /\ PlainStore
    \/ \E c \in DOMAIN call :
           /\ TxGetStream(c)
           /\ PlainStore
    \/ \E c \in DOMAIN call, now \in Times :
           /\ TxGetCounter(c, now)
           /\ PlainStore
    \/ \E c \in DOMAIN call :
           /\ TxCommit(c)
           /\ PlainStore

Spec == Init /\ [][Next]_vars

\* the calls of RaceCallIds, concurrent or in sequence, each appending one event
\* with no check or expecting version 0: one call can create a stream and the
\* others race on it
InitRace ==
    /\ streamDocs = [s \in Streams |-> NoDoc]
    /\ eventDocs = [s \in Streams |-> <<>>]
    /\ counterDoc = NoDoc
    /\ call = [c \in RaceCallIds |-> IdleCall]
    /\ ghost = [c \in RaceCallIds |-> IdleGhost]
    /\ commitLog = <<>>
    /\ reads = [r \in ReadIds |-> IdleRead]
    /\ logger = NoLogger
    /\ logs = NoLogs
    /\ padded = NotPadded
    /\ clearing = NotClearing

NextRace ==
    \/ \E c \in DOMAIN call, streamName \in Streams, expected \in RaceInputs :
           /\ AppendToStream(c, streamName, 1, expected)
           /\ PlainStore
    \/ \E c \in DOMAIN call :
           /\ TxGetStream(c)
           /\ PlainStore
    \/ \E c \in DOMAIN call :
           /\ TxGetCounter(c, 1)
           /\ PlainStore
    \/ \E c \in DOMAIN call :
           /\ TxCommit(c)
           /\ PlainStore

SpecRace == InitRace /\ [][NextRace]_vars

\* the calls of ContendedCallIds, each appending one event to a stream of its
\* own with no expected version, at most MaxInFlight of them at a time: they
\* meet only in the global counter
InitContended ==
    /\ streamDocs = [s \in {ContendedStreams[c] : c \in ContendedCallIds} |-> NoDoc]
    /\ eventDocs = [s \in {ContendedStreams[c] : c \in ContendedCallIds} |-> <<>>]
    /\ counterDoc = NoDoc
    /\ call = [c \in ContendedCallIds |-> IdleCall]
    /\ ghost = [c \in ContendedCallIds |-> IdleGhost]
    /\ commitLog = <<>>
    /\ reads = [r \in ReadIds |-> IdleRead]
    /\ logger = NoLogger
    /\ logs = NoLogs
    /\ padded = NotPadded
    /\ clearing = NotClearing

\* the calls that have been made and have not settled
InFlight == {c \in DOMAIN call : call[c].pc \notin {"idle", "done"}}

NextContended ==
    \/ \E c \in DOMAIN call :
           /\ Cardinality(InFlight) < MaxInFlight
           /\ AppendToStream(c, ContendedStreams[c], 1, Omitted)
           /\ PlainStore
    \/ \E c \in DOMAIN call :
           /\ TxGetStream(c)
           /\ PlainStore
    \/ \E c \in DOMAIN call :
           /\ TxGetCounter(c, 1)
           /\ PlainStore
    \/ \E c \in DOMAIN call :
           /\ TxCommit(c)
           /\ PlainStore

SpecContended == InitContended /\ [][NextContended]_vars

\* the calls of CallIds appending up to MaxBatch events with no expected
\* version, and the calls of ReadIds reading or aggregating a stream at any
\* moment in between, with every kind of read options
NextRead ==
    \/ \E c \in DOMAIN call, streamName \in Streams, k \in 1..MaxBatch :
           /\ AppendToStream(c, streamName, k, Omitted)
           /\ PlainStore
    \/ \E c \in DOMAIN call :
           /\ TxGetStream(c)
           /\ PlainStore
    \/ \E c \in DOMAIN call :
           /\ TxGetCounter(c, 1)
           /\ PlainStore
    \/ \E c \in DOMAIN call :
           /\ TxCommit(c)
           /\ PlainStore
    \/ \E r \in DOMAIN reads, streamName \in Streams, options \in ReadInputs :
           /\ ReadStreamCall(r, streamName, options)
           /\ PlainStore
    \/ \E r \in DOMAIN reads, streamName \in Streams, evolve \in Evolves,
          read \in AggregateInputs :
           /\ AggregateStreamCall(r, streamName, evolve, read)
           /\ PlainStore

SpecRead == Init /\ [][NextRead]_vars

\* the instrumented store constructed with one of Loggers; the calls of CallIds
\* append up to MaxBatch events (or none) to one stream with no expected
\* version or expecting a new stream, the calls of ReadIds read or aggregate
\* it, and Firestore may reject a transaction or a query
InitObserved ==
    /\ streamDocs = [s \in Streams |-> NoDoc]
    /\ eventDocs = [s \in Streams |-> <<>>]
    /\ counterDoc = NoDoc
    /\ call = [c \in CallIds |-> IdleCall]
    /\ ghost = [c \in CallIds |-> IdleGhost]
    /\ commitLog = <<>>
    /\ reads = [r \in ReadIds |-> IdleRead]
    /\ logger \in Loggers
    /\ logs = ConstructorLogs(logger, CallIds, ReadIds)
    /\ padded = NotPadded
    /\ clearing = NotClearing

NextObserved ==
    \/ \E c \in DOMAIN call, streamName \in ObservedStreams, k \in 0..MaxBatch,
          expected \in ObservedExpectedInputs :
           /\ ObservedAppendToStream(c, streamName, k, expected)
           /\ EventStoreOnly
    \/ \E c \in DOMAIN call :
           /\ ObservedTxGetStream(c)
           /\ EventStoreOnly
    \/ \E c \in DOMAIN call :
           /\ ObservedTxGetCounter(c, 1)
           /\ EventStoreOnly
    \/ \E c \in DOMAIN call :
           /\ ObservedTxCommit(c)
           /\ EventStoreOnly
    \/ \E c \in DOMAIN call :
           /\ ObservedTxFails(c)
           /\ EventStoreOnly
    \/ \E r \in DOMAIN reads, streamName \in ObservedStreams,
          options \in ObservedReadInputs, rejected \in BOOLEAN :
           /\ ObservedReadStreamCall(r, streamName, options, rejected)
           /\ EventStoreOnly
    \/ \E r \in DOMAIN reads, streamName \in ObservedStreams,
          read \in ObservedAggregateInputs, rejected \in BOOLEAN :
           /\ ObservedAggregateStreamCall(r, streamName, "user", read, rejected)
           /\ EventStoreOnly

SpecObserved == InitObserved /\ [][NextObserved]_vars

\* padVersion on its own: two versions a < b from the whole range of event
\* keys, 0 to 10^PadWidth - 1, each taken at the first and the last number of
\* every count of digits
VersionSamples == {0, 1, 9, 10, 99, 100, 999, 1000, 9999, 10000, 99999}
Versions == [hi : VersionSamples, lo : VersionSamples]
Below(a, b) == a.hi < b.hi \/ (a.hi = b.hi /\ a.lo < b.lo)

\* (mutant) the key of a version is its toString, not padded
VersionKeyUnpadded(version) ==
    WideNumberToString(version.hi, version.lo)

\* padVersion(version) of the version hi * WideBase + lo
VersionKey(version) ==
    IF version.hi = 0 THEN padVersion(version.lo)
    ELSE padWideVersion(version.hi, version.lo)

InitPad ==
    /\ streamDocs = [s \in Streams |-> NoDoc]
    /\ eventDocs = [s \in Streams |-> <<>>]
    /\ counterDoc = NoDoc
    /\ call = [c \in CallIds |-> IdleCall]
    /\ ghost = [c \in CallIds |-> IdleGhost]
    /\ commitLog = <<>>
    /\ reads = [r \in ReadIds |-> IdleRead]
    /\ logger = NoLogger
    /\ logs = NoLogs
    /\ padded \in {[pc |-> "idle", a |-> pair[1], b |-> pair[2]] :
                      pair \in {p \in Versions \X Versions : Below(p[1], p[2])}}
    /\ clearing = NotClearing

\* padVersion(a) and padVersion(b) are evaluated
PadVersions ==
    /\ padded.pc = "idle"
    /\ padded' = [pc |-> "done", a |-> padded.a, b |-> padded.b,
                  keyA |-> VersionKey(padded.a), keyB |-> VersionKey(padded.b)]
    /\ UNCHANGED <<streamDocs, eventDocs, counterDoc, call, ghost, commitLog,
                   reads, logger, logs, clearing>>

NextPad == PadVersions

SpecPad == InitPad /\ [][NextPad]_vars

\* the calls of CallIds append up to MaxBatch events with no expected version;
\* clearFirestore is called when none of them is under way, with a batch size
\* up to MaxBatchSize, and no call is made after it
NextClear ==
    \/ \E c \in DOMAIN call, streamName \in Streams, k \in 1..MaxBatch :
           /\ clearing.pc = "idle"
           /\ AppendToStream(c, streamName, k, Omitted)
           /\ PlainStore
    \/ \E c \in DOMAIN call :
           /\ TxGetStream(c)
           /\ PlainStore
    \/ \E c \in DOMAIN call :
           /\ TxGetCounter(c, 1)
           /\ PlainStore
    \/ \E c \in DOMAIN call :
           /\ TxCommit(c)
           /\ PlainStore
    \/ \E batchSize \in 1..MaxBatchSize : ClearFirestore(batchSize)
    \/ \E collection \in {"_counters", "streams"}, batchSize \in 1..MaxBatchSize :
           DeleteCollection(collection, batchSize)
    \/ DeleteQueryBatch
    \/ \E error \in {QueryError, CommitError} : DeleteQueryBatchFails(error)

SpecClear == Init /\ [][NextClear]_vars

\* the same with the scheduling of Node: an await whose promise is fulfilled
\* resumes, and a callback passed to process.nextTick is run, so a round of
\* deleteQueryBatch that can run does run; nothing makes a query or a commit
\* fail
FairClear == WF_vars(DeleteQueryBatch)
SpecClearLive == Init /\ [][NextClear]_vars /\ FairClear

\* the calls of CreateCallIds, concurrent or in sequence, each appending up to
\* MaxBatch events to the same stream and expecting it not to exist
InitCreate ==
    /\ streamDocs = [s \in Streams |-> NoDoc]
    /\ eventDocs = [s \in Streams |-> <<>>]
    /\ counterDoc = NoDoc
    /\ call = [c \in CreateCallIds |-> IdleCall]
    /\ ghost = [c \in CreateCallIds |-> IdleGhost]
    /\ commitLog = <<>>
    /\ reads = [r \in ReadIds |-> IdleRead]
    /\ logger = NoLogger
    /\ logs = NoLogs
    /\ padded = NotPadded
    /\ clearing = NotClearing

NextCreate ==
    \/ \E c \in DOMAIN call, k \in 1..MaxBatch :
           /\ AppendToStream(c, NewStream, k, STREAM_DOES_NOT_EXIST)
           /\ PlainStore
    \/ \E c \in DOMAIN call :
           /\ TxGetStream(c)
           /\ PlainStore
    \/ \E c \in DOMAIN call, now \in Times :
           /\ TxGetCounter(c, now)
           /\ PlainStore
    \/ \E c \in DOMAIN call :
           /\ TxCommit(c)
           /\ PlainStore

SpecCreate == InitCreate /\ [][NextCreate]_vars

\* a caller that aggregates a stream once the appends before it have all
\* settled, with any read options; after an aggregate without read options
\* the caller appends right away, passing the currentStreamVersion it was
\* given as the exact expected version, and nobody else writes until that
\* append has settled
Quiet == \A c \in DOMAIN call : call[c].pc \in {"idle", "done"}

AppendWithAggregatedVersion(c, r, k) ==
    /\ Quiet
    /\ reads[r].pc = "done"
    /\ reads[r].op = "aggregateStream"
    /\ reads[r].options.read = OmittedRead
    /\ reads[r].result.status = "fulfilled"
    /\ reads[r].at = Len(commitLog)
    /\ AppendToStream(c, reads[r].streamName, k,
                      BigInt(reads[r].result.value.currentStreamVersion))

NextFollow ==
    \/ \E c \in DOMAIN call, streamName \in Streams, k \in 1..MaxBatch :
           /\ \A r \in DOMAIN reads : reads[r].pc = "idle"
           /\ AppendToStream(c, streamName, k, Omitted)
           /\ PlainStore
    \/ \E c \in DOMAIN call :
           /\ TxGetStream(c)
           /\ PlainStore
    \/ \E c \in DOMAIN call :
           /\ TxGetCounter(c, 1)
           /\ PlainStore
    \/ \E c \in DOMAIN call :
           /\ TxCommit(c)
           /\ PlainStore
    \/ \E r \in DOMAIN reads, streamName \in Streams, evolve \in Evolves,
          read \in AggregateInputs :
           /\ Quiet
           /\ AggregateStreamCall(r, streamName, evolve, read)
           /\ PlainStore
    \/ \E c \in DOMAIN call, r \in DOMAIN reads, k \in 1..MaxBatch :
           /\ AppendWithAggregatedVersion(c, r, k)
           /\ PlainStore

SpecFollow == InitCreate /\ [][NextFollow]_vars

\* appends of events whose own metadata is left out, has entries of the
\* user's, or has entries named like the fields readStream adds, with values
\* the store never assigns; and reads of the stream in between
UserMetadata ==
    {[correlationId |-> 7],
     [streamVersion |-> 99, correlationId |-> 7],
     [streamName |-> "other", streamVersion |-> 99, streamPosition |-> 98,
      globalPosition |-> 97, timestamp |-> 96, tenant |-> 5]}

\* the batches: k events, the first with the metadata, the others without
EventWithMetadata(c, i, metadata) ==
    [type |-> "UserRegistered", data |-> <<c, i>>, metadata |-> metadata]
MetadataBatches(c) ==
    {[i \in 1..k |-> IF i = 1 THEN EventWithMetadata(c, i, metadata)
                               ELSE InputEvent(c, i)] :
        k \in 1..MaxBatch, metadata \in UserMetadata}
        \cup {Batch(c, k) : k \in 1..MaxBatch}

NextMetadata ==
    \/ \E c \in DOMAIN call : \E events \in MetadataBatches(c) :
           /\ AppendEvents(c, NewStream, events, Omitted)
           /\ PlainStore
    \/ \E c \in DOMAIN call :
           /\ TxGetStream(c)
           /\ PlainStore
    \/ \E c \in DOMAIN call, now \in Times :
           /\ TxGetCounter(c, now)
           /\ PlainStore
    \/ \E c \in DOMAIN call :
           /\ TxCommit(c)
           /\ PlainStore
    \/ \E r \in DOMAIN reads, options \in ObservedReadInputs :
           /\ ReadStreamCall(r, NewStream, options)
           /\ PlainStore

SpecMetadata == Init /\ [][NextMetadata]_vars

\* the calls of Spec on a store in which the metadata document of one stream
\* exists without a version field (streamData?.version is undefined) and the
\* other stream does not exist
UnversionedStream == "s1"
UnversionedDoc == [exists |-> TRUE, createdAt |-> 1, updatedAt |-> 1]

InitUnversioned ==
    /\ streamDocs = [s \in Streams |->
                        IF s = UnversionedStream THEN UnversionedDoc ELSE NoDoc]
    /\ eventDocs = [s \in Streams |-> <<>>]
    /\ counterDoc = NoDoc
    /\ call = [c \in CallIds |-> IdleCall]
    /\ ghost = [c \in CallIds |-> IdleGhost]
    /\ commitLog = <<>>
    /\ reads = [r \in ReadIds |-> IdleRead]
    /\ logger = NoLogger
    /\ logs = NoLogs
    /\ padded = NotPadded
    /\ clearing = NotClearing

SpecUnversioned == InitUnversioned /\ [][Next]_vars

(***************************************************************************)
(* Shorthands for the properties                                           *)
(***************************************************************************)
Done(c) == call[c].pc = "done"
Succeeded(c) == Done(c) /\ call[c].result.status = "fulfilled"
Failed(c) == Done(c) /\ call[c].result.status = "rejected"
FailedWith(c, name) == Failed(c) /\ call[c].result.reason.name = name
VersionConflict(c) == FailedWith(c, "ExpectedVersionConflictError")

\* the stream versions an unbounded readStream returns, in order
ReadVersions(allDocs, streamName) ==
    LET events == ReadStream(allDocs, streamName, NoReadOptions)
    IN [i \in 1..Len(events) |-> events[i].metadata.streamVersion]

\* <<a, a+1, ..., b>>
Range(a, b) == [i \in 1..(b - a + 1) |-> a + i - 1]

\* the stored version of a stream; -1 when it does not exist
StoredVersion(streamDoc) == BaseVersion(CurrentVersion(streamDoc))

\* only the calls of `writers` have been made on the stream
OnlyWriters(streamName, writers) ==
    \A x \in DOMAIN call \ writers :
        call[x].pc = "idle" \/ call[x].streamName # streamName

(***************************************************************************)
(* C1  N >= 2 concurrent appends to the same existing stream, all expecting *)
(* its current version n: once all of them have settled, exactly one has    *)
(* succeeded and every other one has failed with                            *)
(* ExpectedVersionConflictError, whatever the interleaving of their reads   *)
(* and commits (and of appends to other streams).                           *)
(***************************************************************************)
\* the calls made on the stream while it was at version n, expecting n
Cohort(streamName, n) ==
    {c \in DOMAIN call :
        /\ call[c].pc # "idle"
        /\ call[c].streamName = streamName
        /\ call[c].options = BigInt(n)
        /\ ghost[c].startVersion = BigInt(n)}

\* another call writes the stream while the cohort runs
Interfered(streamName, n) ==
    \E d \in DOMAIN call \ Cohort(streamName, n) :
        /\ call[d].pc # "idle"
        /\ call[d].streamName = streamName
        /\ \/ ~Done(d)
           \/ Succeeded(d) /\ call[d].result.value.nextExpectedStreamVersion > n

C1_ExactlyOneRacerWins ==
    \A streamName \in Streams, n \in 0..MaxExpected :
        LET racers == Cohort(streamName, n)
        IN (/\ Cardinality(racers) >= 2
            /\ \A c \in racers : Done(c)
            /\ ~Interfered(streamName, n))
           => \E winner \in racers :
                  /\ Succeeded(winner)
                  /\ \A c \in racers \ {winner} : VersionConflict(c)

\* three racers on an existing stream have all settled
C1_Witness ==
    \E streamName \in Streams :
        /\ Cardinality(Cohort(streamName, 0)) = 3
        /\ \A c \in Cohort(streamName, 0) : Done(c)
        /\ ~Interfered(streamName, 0)

(***************************************************************************)
(* C2  In every reachable state, a stream whose metadata holds version v    *)
(* has exactly the event documents keyed padVersion(0) .. padVersion(v),    *)
(* and the document at padVersion(i) has streamVersion = i: no gap and no   *)
(* extra document.                                                          *)
(***************************************************************************)
C2_EventsAreZeroToVersion ==
    \A s \in Streams :
        streamDocs[s].exists =>
            /\ DOMAIN eventDocs[s] = {padVersion(i) : i \in 0..streamDocs[s].version}
            /\ Cardinality(DOMAIN eventDocs[s]) = streamDocs[s].version + 1
            /\ \A i \in 0..streamDocs[s].version :
                   eventDocs[s][padVersion(i)].streamVersion = i

\* a stream that two appends have grown to four events
C2_Witness ==
    \E s \in Streams :
        /\ streamDocs[s].exists /\ streamDocs[s].version = 3
        /\ Len(commitLog) = 2

(***************************************************************************)
(* C3  No two event documents of the store have the same globalPosition,    *)
(* and every event of a later-committed append has a globalPosition greater *)
(* than every event of an earlier-committed append.                         *)
(***************************************************************************)
\* every event document of the store, as <<streamName, key>>
AllEventIds == {<<s, k>> : s \in Streams, k \in UNION {DOMAIN eventDocs[t] : t \in Streams}}
StoredEventIds == {id \in AllEventIds : id[2] \in DOMAIN eventDocs[id[1]]}
\* the globalPosition values the i-th committed append wrote
CommitPositions(i) ==
    {eventDocs[commitLog[i].streamName][k].globalPosition : k \in commitLog[i].keys}

C3_GlobalPositionsUniqueAndOrdered ==
    /\ \A a, b \in StoredEventIds :
           a # b => eventDocs[a[1]][a[2]].globalPosition
                        # eventDocs[b[1]][b[2]].globalPosition
    /\ \A i, j \in 1..Len(commitLog) :
           i < j => \A x \in CommitPositions(i), y \in CommitPositions(j) : x < y

\* two appends of several events each, to different streams, have committed
C3_Witness ==
    /\ Len(commitLog) = 2
    /\ commitLog[1].streamName # commitLog[2].streamName
    /\ Cardinality(commitLog[1].keys) >= 2
    /\ Cardinality(commitLog[2].keys) >= 2

(***************************************************************************)
(* C4  A successful append of k >= 1 events to a stream whose version was p *)
(* (-1 when it did not exist) returns nextExpectedStreamVersion = p + k,    *)
(* leaves the stored version at p + k, and an unbounded readStream right    *)
(* after it returns the stream versions 0 .. p + k in ascending order.      *)
(***************************************************************************)
C4_AppendAdvancesByBatchSize ==
    [][\A c \in DOMAIN call :
          (~Done(c) /\ Succeeded(c)') =>
              LET streamName == call[c].streamName
                  k == Len(call[c].events)
                  p == StoredVersion(streamDocs[streamName])
              IN /\ k >= 1
                 /\ call'[c].result.value.nextExpectedStreamVersion = p + k
                 /\ StoredVersion(streamDocs'[streamName]) = p + k
                 /\ streamDocs'[streamName].exists
                 /\ ReadVersions(eventDocs', streamName) = Range(0, p + k)
                 /\ SubSeq(ReadVersions(eventDocs', streamName), p + 2, p + k + 1)
                        = Range(p + 1, p + k)]_vars

\* an append of two events to a stream that already existed has succeeded
C4_Witness ==
    \E c \in DOMAIN call :
        /\ Succeeded(c)
        /\ Len(call[c].events) = 2
        /\ ~call[c].result.value.createdNewStream
        /\ call[c].result.value.nextExpectedStreamVersion = 3

(***************************************************************************)
(* C5  An append rejected by the expected-version check has left the store  *)
(* as it was: no step of the call, from its invocation to its rejection,    *)
(* changed a stream's metadata, an event document or the global counter.    *)
(***************************************************************************)
C5_RejectedAppendWroteNothing ==
    \A c \in DOMAIN call : VersionConflict(c) => ~ghost[c].wrote

\* an append that had to find the stream absent was rejected after another
\* call created the stream
C5_Witness ==
    \E c \in DOMAIN call :
        /\ VersionConflict(c)
        /\ call[c].options = STREAM_DOES_NOT_EXIST
        /\ ghost[c].startVersion = STREAM_DOES_NOT_EXIST
        /\ streamDocs[call[c].streamName].exists
        /\ counterDoc.exists

(***************************************************************************)
(* C6  No partially applied append is ever visible: every step either       *)
(* leaves all documents as they were, or is the commit of one append and    *)
(* makes its k event documents, the stream metadata at version + k and the  *)
(* counter at value + k visible together; a refused commit changes nothing. *)
(***************************************************************************)
CompleteAppend(c) ==
    LET streamName == call[c].streamName
        k == Len(call[c].events)
        before == eventDocs[streamName]
        after == eventDocs'[streamName]
    IN /\ call[c].pc = "commit"
       /\ Succeeded(c)'
       /\ DOMAIN before \subseteq DOMAIN after
       /\ Cardinality(DOMAIN after \ DOMAIN before) = k
       /\ \A key \in DOMAIN before : after[key] = before[key]
       /\ streamDocs'[streamName].exists
       /\ streamDocs'[streamName].version = StoredVersion(streamDocs[streamName]) + k
       /\ counterDoc'.exists
       /\ counterDoc'.value = CounterValue(counterDoc) + k
       /\ \A other \in Streams \ {streamName} :
              /\ eventDocs'[other] = eventDocs[other]
              /\ streamDocs'[other] = streamDocs[other]

C6_AppendIsAllOrNothing ==
    [][store' = store \/ \E c \in DOMAIN call : CompleteAppend(c)]_vars

\* Firestore refused the commit of one append after another, of two events,
\* had committed: the refused one is being run again
C6_Witness ==
    \E c, d \in DOMAIN call :
        /\ call[c].attempt = 2
        /\ Succeeded(d)
        /\ Len(call[d].events) = 2

(***************************************************************************)
(* C7  assertExpectedVersionMatchesCurrent accepts exactly when: the marker *)
(* is NO_CONCURRENCY_CHECK (or was left out by the caller); or it is        *)
(* STREAM_DOES_NOT_EXIST and the current version is the sentinel; or it is  *)
(* STREAM_EXISTS and the current version is not the sentinel; or it is a    *)
(* number n and the current version is a version equal to n.  In every      *)
(* other case the append fails with ExpectedVersionConflictError.           *)
(***************************************************************************)
C7_Accepts(expected, current) ==
    \/ expected = NO_CONCURRENCY_CHECK
    \/ expected = Omitted
    \/ expected = STREAM_DOES_NOT_EXIST /\ current = STREAM_DOES_NOT_EXIST
    \/ expected = STREAM_EXISTS /\ current # STREAM_DOES_NOT_EXIST
    \/ /\ expected.tag = "bigint"
       /\ current.tag = "bigint"
       /\ current.n = expected.n

C7_VersionCheckTable ==
    [][\A c \in DOMAIN call :
          (call[c].pc = "getStream" /\ call'[c].pc # "getStream") =>
              IF C7_Accepts(call[c].options,
                            CurrentVersion(streamDocs[call[c].streamName]))
                  THEN call'[c].pc = "getCounter"
                  ELSE VersionConflict(c)']_vars

\* an append expecting version 0 was rejected because the stream was absent
C7_Witness ==
    \E c \in DOMAIN call :
        /\ VersionConflict(c)
        /\ call[c].options = BigInt(0)
        /\ call[c].result.reason.actual = STREAM_DOES_NOT_EXIST

(***************************************************************************)
(* C8  Every ExpectedVersionConflictError of an append carries the stream   *)
(* name of the call, the expected-version marker as the caller passed it,   *)
(* and as actual the version the failing transaction read (the sentinel     *)
(* when it found no stream).                                                *)
(***************************************************************************)
C8_ConflictErrorFields ==
    [][\A c \in DOMAIN call :
          (~Done(c) /\ VersionConflict(c)') =>
              /\ call'[c].result.reason.streamName = call[c].streamName
              /\ call'[c].result.reason.expected = call[c].options
              /\ call'[c].result.reason.actual =
                     CurrentVersion(streamDocs[call[c].streamName])
              /\ call'[c].streamName = call[c].streamName
              /\ call'[c].options = call[c].options]_vars

\* an append expecting version 0 was rejected by a stream at version 1
C8_Witness ==
    \E c \in DOMAIN call :
        /\ VersionConflict(c)
        /\ call[c].result.reason.expected = BigInt(0)
        /\ call[c].result.reason.actual = BigInt(1)

(***************************************************************************)
(* C9  On a stream with no other writers, the nextExpectedStreamVersion of  *)
(* a successful append is accepted as the exact expectedStreamVersion of    *)
(* the next append, and the same value used once more is rejected with      *)
(* ExpectedVersionConflictError whose actual is the version the intervening *)
(* append returned: [A] to a new stream returns 0 and createdNewStream      *)
(* true, [B] expecting 0 returns 1 and false, [C] expecting 0 fails with    *)
(* expected 0, actual 1.                                                    *)
(***************************************************************************)
ReturnedVersion(c) == call[c].result.value.nextExpectedStreamVersion

\* b is the next append after a: made on a's stream after a had succeeded,
\* with at least one event and expecting the version a returned
NextAfter(a, b) ==
    /\ Succeeded(a)
    /\ call[b].pc # "idle"
    /\ Len(call[b].events) >= 1
    /\ call[b].streamName = call[a].streamName
    /\ a \in ghost[b].prior
    /\ call[b].options = BigInt(ReturnedVersion(a))

C9_ReturnedVersionChains ==
    \A a, b \in DOMAIN call :
        (a # b /\ NextAfter(a, b) /\ Done(b)) =>
            \* the first two appends, with no other writer of the stream
            /\ OnlyWriters(call[a].streamName, {a, b}) =>
                   /\ ReturnedVersion(a) = Len(call[a].events) - 1
                   /\ call[a].result.value.createdNewStream
                   /\ Succeeded(b)
                   /\ ReturnedVersion(b) = ReturnedVersion(a) + Len(call[b].events)
                   /\ ~call[b].result.value.createdNewStream
            \* the third append, made after the second, with the first's version
            /\ \A c \in DOMAIN call \ {a, b} :
                   (/\ OnlyWriters(call[a].streamName, {a, b, c})
                    /\ Succeeded(b)
                    /\ Done(c)
                    /\ Len(call[c].events) >= 1
                    /\ call[c].streamName = call[a].streamName
                    /\ b \in ghost[c].prior
                    /\ call[c].options = BigInt(ReturnedVersion(a))) =>
                       /\ VersionConflict(c)
                       /\ call[c].result.reason.expected = BigInt(ReturnedVersion(a))
                       /\ call[c].result.reason.actual = BigInt(ReturnedVersion(b))

\* [A] created the stream, [B] expecting 0 succeeded, [C] expecting 0 failed
\* with expected 0 and actual 1, while a fourth call appended to another stream
C9_Witness ==
    \E a, b, c \in DOMAIN call :
        /\ a # b /\ b # c /\ a # c
        /\ NextAfter(a, b) /\ Succeeded(b)
        /\ ReturnedVersion(a) = 0 /\ ReturnedVersion(b) = 1
        /\ OnlyWriters(call[a].streamName, {a, b, c})
        /\ call[c].streamName = call[a].streamName
        /\ b \in ghost[c].prior
        /\ call[c].options = BigInt(0)
        /\ VersionConflict(c)
        /\ call[c].result.reason.actual = BigInt(1)
        /\ \E d \in DOMAIN call \ {a, b, c} : Succeeded(d)

(***************************************************************************)
(* C10  appendToStream with an empty events array fails with the error      *)
(* 'Cannot append empty event array' without entering a transaction or      *)
(* issuing a store read or write, and leaves the store unchanged, whatever  *)
(* the expected version and whether or not the stream exists.               *)
(***************************************************************************)
C10_EmptyBatchRejectedBeforeIO ==
    \A c \in DOMAIN call :
        (call[c].pc # "idle" /\ Len(call[c].events) = 0) =>
            /\ Failed(c)
            /\ call[c].result.reason = EmptyArrayError
            /\ call[c].result.reason.message = "Cannot append empty event array"
            /\ ~ghost[c].io
            /\ ~ghost[c].wrote

\* an empty append expecting version 0 was rejected on a stream at version 0
C10_Witness ==
    \E c \in DOMAIN call :
        /\ Failed(c)
        /\ Len(call[c].events) = 0
        /\ call[c].options = BigInt(0)
        /\ ghost[c].startVersion = BigInt(0)

(***************************************************************************)
(* C11  A successful append returns createdNewStream = TRUE exactly when    *)
(* the stream had no metadata document when its transaction read it (which  *)
(* is the state the commit found); so among the successful appends to one   *)
(* stream, in commit order, the first reports TRUE and every later one      *)
(* reports FALSE, also when the appends ran concurrently.                   *)
(***************************************************************************)
\* the committed appends to the stream before the i-th committed append
EarlierCommits(i) ==
    {j \in 1..(i - 1) : commitLog[j].streamName = commitLog[i].streamName}

C11_CreatedNewStreamOnlyFirst ==
    /\ [](\A i \in 1..Len(commitLog) :
             /\ Succeeded(commitLog[i].call)
             /\ call[commitLog[i].call].result.value.createdNewStream
                    = (EarlierCommits(i) = {}))
    /\ [][\A c \in DOMAIN call :
             (~Done(c) /\ Succeeded(c)') =>
                 /\ call'[c].result.value.createdNewStream
                        = ~streamDocs[call[c].streamName].exists
                 /\ call'[c].result.value.createdNewStream
                        = ~call[c].streamDoc.exists]_vars

\* two appends were made on a stream that did not exist; both succeeded, the
\* first to commit created it and the other reports FALSE
C11_Witness ==
    \E i, j \in 1..Len(commitLog) :
        /\ i < j
        /\ commitLog[i].streamName = commitLog[j].streamName
        /\ ghost[commitLog[j].call].startVersion = STREAM_DOES_NOT_EXIST
        /\ ghost[commitLog[j].call].prior = {}
        /\ call[commitLog[i].call].result.value.createdNewStream
        /\ ~call[commitLog[j].call].result.value.createdNewStream

(***************************************************************************)
(* C12  (as claimed) When Firestore refuses the commit of an append because *)
(* a document the transaction read was written meanwhile, the call fails    *)
(* at that point with an error that is not ExpectedVersionConflictError,    *)
(* and the append is not executed again.                                    *)
(***************************************************************************)
\* this step of call c is a commit that Firestore refuses
RefusedCommit(c) ==
    /\ call[c].pc = "commit"
    /\ call'[c] # call[c]
    /\ ~ReadSetUnchanged(call[c].streamDoc, call[c].counterSnap,
                         streamDocs[call[c].streamName], counterDoc)

C12_RefusedCommitFailsTheCall ==
    [][\A c \in DOMAIN call :
          RefusedCommit(c) =>
              /\ Failed(c)'
              /\ ~VersionConflict(c)']_vars

(***************************************************************************)
(* C12  (amended) The event store has no retry loop of its own, but it      *)
(* calls runTransaction with the default options: a refused commit writes   *)
(* nothing and the update function is run again from its first read, up to  *)
(* MaxAttempts attempts in all; the call fails with Firestore's own error,  *)
(* which is not an ExpectedVersionConflictError, only when the commit of    *)
(* every attempt was refused, that is after at least MaxAttempts other      *)
(* appends have committed while it ran.                                     *)
(***************************************************************************)
C12_RefusedCommitIsRunAgain ==
    /\ [][\A c \in DOMAIN call :
             RefusedCommit(c) =>
                 /\ store' = store
                 /\ IF call[c].attempt < MaxAttempts
                        THEN /\ call'[c].pc = "getStream"
                             /\ call'[c].attempt = call[c].attempt + 1
                             /\ call'[c].result = NoResult
                        ELSE /\ Failed(c)'
                             /\ call'[c].result.reason = AbortedError
                             /\ ~VersionConflict(c)']_vars
    /\ [](\A c \in DOMAIN call :
             (Failed(c) /\ call[c].result.reason = AbortedError) =>
                 /\ Len(commitLog) >= MaxAttempts
                 /\ \A i \in 1..Len(commitLog) : commitLog[i].call # c)

\* one call was refused in every attempt and failed, the five others succeeded
C12_Witness ==
    \E c \in DOMAIN call :
        /\ Failed(c) /\ call[c].result.reason = AbortedError
        /\ \A d \in DOMAIN call \ {c} : Succeeded(d)

(***************************************************************************)
(* C13  N concurrent appends of one event each, to N different streams that *)
(* do not exist yet and with no expected version, all succeed, each with    *)
(* nextExpectedStreamVersion = 0 and createdNewStream = TRUE, although all  *)
(* of them read and write the one global counter document.                  *)
(***************************************************************************)
C13_AppendsToDifferentStreamsAllSucceed ==
    \A c \in DOMAIN call :
        (/\ Done(c)
         /\ call[c].options = Omitted
         /\ Len(call[c].events) = 1
         /\ \A d \in DOMAIN call \ {c} : call[d].streamName # call[c].streamName)
        => /\ Succeeded(c)
           /\ call[c].result.value.nextExpectedStreamVersion = 0
           /\ call[c].result.value.createdNewStream

(***************************************************************************)
(* C14  An event document that has been committed stays as it is: no step   *)
(* of an appendToStream, readStream or aggregateStream call, on its stream  *)
(* or on another, changes one of its fields (type, data, metadata,          *)
(* timestamp, globalPosition, streamVersion) or removes it.                 *)
(***************************************************************************)
C14_CommittedEventsAreImmutable ==
    [][\A s \in DOMAIN eventDocs : \A key \in DOMAIN eventDocs[s] :
          /\ key \in DOMAIN eventDocs'[s]
          /\ eventDocs'[s][key] = eventDocs[s][key]]_vars

\* a stream took a second append, of two events, and was then aggregated
C14_Witness ==
    \E r \in DOMAIN reads :
        /\ reads[r].op = "aggregateStream"
        /\ reads[r].at = 2
        /\ Len(commitLog) = 2
        /\ commitLog[1].streamName = commitLog[2].streamName
        /\ reads[r].streamName = commitLog[1].streamName
        /\ Cardinality(commitLog[2].keys) = 2

(***************************************************************************)
(* C15  The step in which an append of k events to stream S succeeds writes *)
(* exactly k new event documents of S (one per input event, at the next k   *)
(* versions), the metadata document of S and the global counter, and leaves *)
(* as they were every earlier event document of S and the metadata and      *)
(* event documents of every other stream.                                   *)
(***************************************************************************)
C15_AppendWritesExactlyItsDocuments ==
    [][\A c \in DOMAIN call :
          (~Done(c) /\ Succeeded(c)') =>
              LET S == call[c].streamName
                  k == Len(call[c].events)
                  p == StoredVersion(streamDocs[S])
                  added == DOMAIN eventDocs'[S] \ DOMAIN eventDocs[S]
              IN /\ added = {padVersion(p + i) : i \in 1..k}
                 /\ Cardinality(added) = k
                 /\ \A i \in 1..k :
                        LET doc == eventDocs'[S][padVersion(p + i)]
                        IN /\ doc.type = call[c].events[i].type
                           /\ doc.data = call[c].events[i].data
                           /\ doc.streamVersion = p + i
                 /\ \A key \in DOMAIN eventDocs[S] :
                        /\ key \in DOMAIN eventDocs'[S]
                        /\ eventDocs'[S][key] = eventDocs[S][key]
                 /\ streamDocs'[S] # streamDocs[S]
                 /\ counterDoc' # counterDoc
                 /\ \A other \in DOMAIN streamDocs \ {S} :
                        /\ streamDocs'[other] = streamDocs[other]
                        /\ eventDocs'[other] = eventDocs[other]]_vars

\* an append of two events succeeded after an append of two events to the
\* other stream had committed
C15_Witness ==
    \E c \in DOMAIN call :
        /\ Succeeded(c)
        /\ Len(call[c].events) = 2
        /\ Len(commitLog) = 2
        /\ commitLog[2].call = c
        /\ commitLog[1].streamName # call[c].streamName
        /\ Cardinality(DOMAIN eventDocs[commitLog[1].streamName]) = 2

(***************************************************************************)
(* C16  readStream(S, {from, to, maxCount}) returns exactly the events of S *)
(* whose streamVersion v has from <= v (when from is given) and v <= to     *)
(* (when to is given), in ascending streamVersion order; when maxCount is a *)
(* positive number only the first maxCount of them, and all of them when    *)
(* maxCount is absent, zero or negative.  When no event is in the range, or *)
(* the stream has none, the result is the empty sequence and no error.      *)
(***************************************************************************)
\* the call r is made in this step
ReadNow(r, op) == reads[r].pc = "idle" /\ reads'[r].pc = "done" /\ reads'[r].op = op

\* the stream versions of the stored events of S that are in the range
InRange(docs, options) ==
    {docs[k].streamVersion : k \in
        {k \in DOMAIN docs :
            /\ options.from = Undefined \/ TheValue(options.from) <= docs[k].streamVersion
            /\ options.to = Undefined \/ docs[k].streamVersion <= TheValue(options.to)}}

C16_ReadStreamReturnsTheRange ==
    [][\A r \in DOMAIN reads :
          ReadNow(r, "readStream") =>
              LET S == reads'[r].streamName
                  options == reads'[r].options
                  docs == eventDocs[S]
                  wanted == InRange(docs, options)
                  cut == options.maxCount # Undefined /\ TheValue(options.maxCount) > 0
                  events == reads'[r].result.value
                  returned == {events[i].metadata.streamVersion : i \in 1..Len(events)}
              IN /\ reads'[r].result.status = "fulfilled"
                 /\ \A i, j \in 1..Len(events) :
                        i < j => events[i].metadata.streamVersion
                                     < events[j].metadata.streamVersion
                 /\ returned \subseteq wanted
                 /\ \A v \in wanted \ returned : \A w \in returned : w < v
                 /\ Len(events) =
                        IF cut /\ TheValue(options.maxCount) < Cardinality(wanted)
                            THEN TheValue(options.maxCount)
                            ELSE Cardinality(wanted)
                 /\ \A i \in 1..Len(events) :
                        LET doc == docs[padVersion(events[i].metadata.streamVersion)]
                        IN /\ events[i].type = doc.type
                           /\ events[i].data = doc.data
                           /\ events[i].metadata.streamName = S
                           /\ doc.streamVersion = events[i].metadata.streamVersion]_vars

\* a stream of four events was read from 1 to 2 with maxCount 1: one event
C16_Witness ==
    \E r \in DOMAIN reads :
        /\ reads[r].op = "readStream"
        /\ reads[r].options = ReadOptions(Some(1), Some(2), Some(1))
        /\ Len(reads[r].result.value) = 1
        /\ reads[r].result.value[1].metadata.streamVersion = 1
        /\ Cardinality(DOMAIN eventDocs[reads[r].streamName]) = 4
        /\ reads[r].at = 2

(***************************************************************************)
(* C17  After an append of events e_0 .. e_(k-1) to stream S has succeeded, *)
(* with b the version of its first event, readStream(S, {from: b,           *)
(* to: b+k-1}) returns k events, the i-th of which has the type and data of *)
(* e_i, streamName = S and streamVersion = streamPosition = b + i.          *)
(***************************************************************************)
\* the place of the successful call c in the order of commits
CommitIndex(c) == CHOOSE i \in 1..Len(commitLog) : commitLog[i].call = c
\* the version of the first event that the successful call c appended
FirstVersion(c) == ReturnedVersion(c) - Len(call[c].events) + 1

C17_ReadBackWhatWasAppended ==
    \A r \in DOMAIN reads, c \in DOMAIN call :
        (/\ reads[r].op = "readStream"
         /\ Succeeded(c)
         /\ CommitIndex(c) <= reads[r].at
         /\ reads[r].streamName = call[c].streamName
         /\ reads[r].options =
                ReadOptions(Some(FirstVersion(c)), Some(ReturnedVersion(c)),
                            Undefined))
        => LET events == reads[r].result.value
               k == Len(call[c].events)
           IN /\ Len(events) = k
              /\ \A i \in 1..k :
                     /\ events[i].type = call[c].events[i].type
                     /\ events[i].data = call[c].events[i].data
                     /\ events[i].metadata.streamName = call[c].streamName
                     /\ events[i].metadata.streamVersion = FirstVersion(c) + i - 1
                     /\ events[i].metadata.streamPosition = FirstVersion(c) + i - 1

\* the second append to a stream, of two events from version 1, was read back
C17_Witness ==
    \E r \in DOMAIN reads, c \in DOMAIN call :
        /\ reads[r].op = "readStream"
        /\ Succeeded(c)
        /\ CommitIndex(c) <= reads[r].at
        /\ reads[r].streamName = call[c].streamName
        /\ Len(call[c].events) = 2
        /\ reads[r].options = ReadOptions(Some(1), Some(2), Undefined)
        /\ FirstVersion(c) = 1
        /\ Len(reads[r].result.value) = 2

(***************************************************************************)
(* C18  aggregateStream(S, {evolve, initialState, read}) returns as state   *)
(* the left-to-right fold of evolve over the sequence readStream(S, read),  *)
(* starting from initialState(); streamExists tells whether that sequence   *)
(* is non-empty; currentStreamVersion is the streamVersion of its last      *)
(* event, or 0 (not the does-not-exist sentinel) when it is empty.  For a   *)
(* stream never appended to: initialState(), FALSE and 0.                   *)
(***************************************************************************)
\* evolve applied to the first n events, the earlier ones first
RECURSIVE FoldFirst(_, _, _)
FoldFirst(evolve, events, n) ==
    IF n = 0 THEN InitialState(evolve)
    ELSE Evolve(evolve, FoldFirst(evolve, events, n - 1), events[n])

HeadAt(streamName, at) ==
    Cardinality({k \in DOMAIN eventDocs[streamName] :
                    \E i \in 1..at : /\ commitLog[i].streamName = streamName
                                     /\ k \in commitLog[i].keys}) - 1

\* the stored events of versions 0..n, as readStream returns them
UpTo(streamName, n) ==
    [i \in 1..(n + 1) |-> ReadEvent(streamName, eventDocs[streamName][padVersion(i - 1)])]

C19_AggregateToBoundIgnoresLaterEvents ==
    \A r \in DOMAIN reads, n \in 0..MaxRead :
        (/\ reads[r].op = "aggregateStream"
         /\ reads[r].options.read = ReadOptions(Undefined, Some(n), Undefined)
         /\ n <= HeadAt(reads[r].streamName, reads[r].at))
        => LET S == reads[r].streamName
               evolve == reads[r].options.evolve
               result == reads[r].result.value
           IN /\ result.currentStreamVersion = n
              /\ result.streamExists
              /\ result.state = FoldFirst(evolve, UpTo(S, n), n + 1)
              /\ evolve = "history" => result.state = Range(0, n)
              /\ result = AggregateStream(eventDocs, S, evolve, reads[r].options.read)

\* a stream of two events was aggregated up to version 0 and then took two
\* more events
C19_Witness ==
    \E r \in DOMAIN reads :
        /\ reads[r].op = "aggregateStream"
        /\ reads[r].options.read = ReadOptions(Undefined, Some(0), Undefined)
        /\ reads[r].at = 1
        /\ HeadAt(reads[r].streamName, 1) = 1
        /\ Len(commitLog) = 2
        /\ StoredVersion(streamDocs[reads[r].streamName]) = 3
        /\ reads[r].result.value.currentStreamVersion = 0

(***************************************************************************)
(* C20  A readStream that runs while appends are in progress sees each      *)
(* append entirely or not at all: an unbounded read of stream S returns     *)
(* all of the events of an append to S or none of them, only events of      *)
(* appends that have committed, and the versions it returns are 0..m        *)
(* without a gap, where m is a version that S had after one of the commits  *)
(* so far (or the stream is still empty and nothing is returned).           *)
(***************************************************************************)
C20_ReadSeesWholeAppends ==
    [][\A r \in DOMAIN reads :
          (ReadNow(r, "readStream") /\ reads'[r].options = NoReadOptions) =>
              LET S == reads'[r].streamName
                  events == reads'[r].result.value
                  returned == {padVersion(events[i].metadata.streamVersion) :
                                  i \in 1..Len(events)}
                  m == Len(events) - 1
              IN /\ [i \in 1..Len(events) |-> events[i].metadata.streamVersion]
                        = Range(0, m)
                 /\ \E at \in 0..Len(commitLog) : m = HeadAt(S, at)
                 /\ \A i \in 1..Len(commitLog) :
                        commitLog[i].streamName = S =>
                            \/ commitLog[i].keys \subseteq returned
                            \/ commitLog[i].keys \cap returned = {}
                 /\ \A i \in 1..Len(events) :
                        \E j \in 1..Len(commitLog) :
                            /\ commitLog[j].streamName = S
                            /\ padVersion(events[i].metadata.streamVersion)
                                   \in commitLog[j].keys
                            /\ \E n \in 1..Len(call[commitLog[j].call].events) :
                                   events[i].data
                                       = call[commitLog[j].call].events[n].data]_vars

\* a stream of two events was read while an append of two more events to it
\* was waiting for its commit: the read returned the two committed events
C20_Witness ==
    \E r \in DOMAIN reads, c \in DOMAIN call :
        /\ reads[r].op = "readStream"
        /\ reads[r].options = NoReadOptions
        /\ Len(reads[r].result.value) = 2
        /\ reads[r].at = 1
        /\ Len(commitLog) = 1
        /\ call[c].pc = "commit"
        /\ call[c].streamName = reads[r].streamName
        /\ DOMAIN call[c].writes.events = {padVersion(2), padVersion(3)}

(***************************************************************************)
(* C21: readStream and aggregateStream never write. Whatever the arguments *)
(* and whatever the store holds when the call is made, every stream        *)
(* metadata document, every event document and the global counter are the  *)
(* same after the call as before it.                                       *)
(***************************************************************************)
C21_ReadsNeverWrite ==
    [][\A r \in DOMAIN reads :
           ReadNow(r, "readStream") \/ ReadNow(r, "aggregateStream") =>
               /\ streamDocs' = streamDocs
               /\ eventDocs' = eventDocs
               /\ counterDoc' = counterDoc]_vars

\* a stream that does not exist was read while the other stream held events:
\* the store still has no metadata document for it
C21_Witness ==
    \E r \in DOMAIN reads :
        /\ reads[r].pc = "done"
        /\ reads[r].op = "readStream"
        /\ reads[r].result.value = <<>>
        /\ ~streamDocs[reads[r].streamName].exists
        /\ \E s \in Streams : streamDocs[s].exists /\ Len(commitLog) = reads[r].at

\* a step of the plain store with the arguments of the instrumented calls,
\* whatever the logger records meanwhile
PlainStep ==
    \/ \E c \in DOMAIN call, streamName \in ObservedStreams, k \in 0..MaxBatch,
          expected \in ObservedExpectedInputs :
           AppendToStream(c, streamName, k, expected)
    \/ \E c \in DOMAIN call :
           TxGetStream(c) \/ TxGetCounter(c, 1) \/ TxCommit(c) \/ TxFails(c)
    \/ \E r \in DOMAIN reads, streamName \in ObservedStreams,
          options \in ObservedReadInputs :
           \/ ReadStreamCall(r, streamName, options)
           \/ QueryFails(r, "readStream", streamName, options)
    \/ \E r \in DOMAIN reads, streamName \in ObservedStreams,
          read \in ObservedAggregateInputs :
           \/ AggregateStreamCall(r, streamName, "user", read)
           \/ QueryFails(r, "aggregateStream", streamName,
                         [evolve |-> "user", read |-> read])

\* the calls made to the logger so far
LoggerCalls ==
    [store |-> logs.store,
     call |-> [c \in DOMAIN logs.call |-> logs.call[c].calls],
     read |-> [r \in DOMAIN logs.read |-> logs.read[r].calls]]

(***************************************************************************)
(* C22: whatever logger is supplied through options.observability.logger,  *)
(* whatever its methods do and whichever of them it lacks, readStream,     *)
(* aggregateStream and appendToStream return the same value or raise the   *)
(* same error and leave the same store as with no logger: every step of    *)
(* the instrumented store is the step the plain store takes.               *)
(***************************************************************************)
C22_LoggerNeverAltersTheOutcome == [][PlainStep]_vars

\* an error of the store or a version conflict
StoreOrConflictError(error) ==
    \/ error.name = "ExpectedVersionConflictError"
    \/ error.name = "Error" /\ "code" \in DOMAIN error

\* the operation settled with `result` after its catch block caught `caught`
\* and made `calls` to the logger: the error is the one that was caught, and
\* it was logged at `level` when the logger has that method
SameErrorAfterLogging(result, caught, calls, level) ==
    \A error \in caught :
        StoreOrConflictError(error) =>
            /\ result = Rejected(error)
            /\ logger.configured /\ logger[level] # "absent" =>
                   \E i \in DOMAIN calls : calls[i].level = level

(***************************************************************************)
(* C23: every error raised by the store during readStream or              *)
(* appendToStream (a failed query, a failed transaction) and every         *)
(* ExpectedVersionConflictError reaches the caller as that same error,     *)
(* after being logged when a logger is configured, and the operation does  *)
(* not return a normal result.                                             *)
(***************************************************************************)
C23_ErrorsReachTheCallerUnchanged ==
    /\ \A c \in DOMAIN call :
           logs.call[c].caught # {} =>
               /\ Failed(c)
               /\ SameErrorAfterLogging(call[c].result, logs.call[c].caught,
                      logs.call[c].calls,
                      IF VersionConflict(c) THEN "warn" ELSE "error")
    /\ \A r \in DOMAIN reads :
           logs.read[r].caught # {} =>
               /\ reads[r].result.status = "rejected"
               /\ SameErrorAfterLogging(reads[r].result, logs.read[r].caught,
                      logs.read[r].calls, "error")

(***************************************************************************)
(* C24: with no observability configured the instrumented store behaves as *)
(* the plain store: every step of a readStream, aggregateStream or         *)
(* appendToStream call is the step of the plain store, with the same       *)
(* result, the same error and the same store state, and the logger is      *)
(* never called.                                                           *)
(***************************************************************************)
C24_NoObservabilityIsThePlainStore ==
    [][logger = NoLogger => PlainStep /\ LoggerCalls' = LoggerCalls]_vars

\* with no logger: one append succeeded, the other was rejected with a version
\* conflict, and a read of the stream returned the events
C24_Witness ==
    /\ logger = NoLogger
    /\ \E c, d \in DOMAIN call, r \in DOMAIN reads :
           /\ Succeeded(c)
           /\ VersionConflict(d)
           /\ reads[r].pc = "done"
           /\ reads[r].result.status = "fulfilled"
           /\ reads[r].op = "readStream"
           /\ reads[r].streamName = call[c].streamName
           /\ reads[r].at = 1
           /\ Len(reads[r].result.value) = Len(call[c].events)

\* the same events, event documents, call and results with other payloads
OtherData(data) == <<data[1] + 10, data[2]>>
WithOtherData(events) ==
    [i \in DOMAIN events |-> [events[i] EXCEPT !.data = OtherData(@)]]
TwinCall(me) ==
    [me EXCEPT !.events = WithOtherData(@),
               !.writes = IF "events" \in DOMAIN @
                              THEN [@ EXCEPT !.events = WithOtherData(@)]
                              ELSE @]
TwinStore(allDocs) == [s \in DOMAIN allDocs |-> WithOtherData(allDocs[s])]
TwinResult(op, result) ==
    IF result.status # "fulfilled" THEN result
    ELSE IF op = "readStream" THEN Fulfilled(WithOtherData(result.value))
    ELSE Fulfilled([result.value EXCEPT !.state =
             IF "userId" \in DOMAIN @
                 THEN [@ EXCEPT !.userId = OtherData(@), !.email = OtherData(@)]
                 ELSE @])

\* what the step of call c from position `me` can do in the instrumented
\* store, on the stream and counter documents of the current state
AppendOutcomes(me) ==
    IF me.pc = "idle" THEN {ObservedInvoke(logger, me)}
    ELSE IF me.pc = "getStream"
        THEN {ObservedGetStream(logger, me, streamDocs[me.streamName]),
              AppendTry(logger, me, <<>>, {StoreError}, me)}
    ELSE IF me.pc = "getCounter"
        THEN {ObservedGetCounter(logger, me, counterDoc, 1)}
    ELSE {ObservedCommit(logger, me,
              ReadSetUnchanged(me.streamDoc, me.counterSnap,
                               streamDocs[me.streamName], counterDoc))}

\* what the call r can do on the event documents allDocs
ReadOutcomes(allDocs, op, streamName, options) ==
    {IF op = "readStream"
         THEN ObservedReadStream(logger, allDocs, streamName, options, rejected)
         ELSE ObservedAggregateStream(logger, allDocs, streamName,
                                      options.evolve, options.read, rejected) :
     rejected \in BOOLEAN}

(***************************************************************************)
(* C25: no logger call made during appendToStream or readStream carries    *)
(* event payload data.  Two runs that differ only in the data of the       *)
(* appended events make the same logger calls: at every step of a call,    *)
(* the run in which every payload (of the call's events, of the buffered   *)
(* writes, of the stored event documents) is another one makes the logger  *)
(* calls that were made, with the same levels, messages and fields, and    *)
(* arrives where this run arrives, payloads apart.                         *)
(***************************************************************************)
C25_LoggerCallsCarryNoPayload ==
    [][/\ \A c \in DOMAIN call :
              call'[c] # call[c] =>
                  LET me == IF call[c].pc = "idle"
                                THEN [call[c] EXCEPT
                                         !.streamName = call'[c].streamName,
                                         !.events = call'[c].events,
                                         !.options = call'[c].options]
                                ELSE call[c]
                  IN \E twin \in AppendOutcomes(TwinCall(me)) :
                         /\ twin.call = TwinCall(call'[c])
                         /\ logs'.call[c].calls = logs.call[c].calls \o twin.calls
       /\ \A r \in DOMAIN reads :
              reads'[r] # reads[r] =>
                  \E twin \in ReadOutcomes(TwinStore(eventDocs), reads'[r].op,
                                  reads'[r].streamName, reads'[r].options) :
                      /\ twin.result = TwinResult(reads'[r].op, reads'[r].result)
                      /\ logs'.read[r].calls = logs.read[r].calls \o twin.calls]_vars

\* with a logger that has every method, an append of two events was logged
\* from 'Appending to stream' to 'Append completed', and a read of the stream
\* after it logged that it returned two events
C25_Witness ==
    \E c \in DOMAIN call, r \in DOMAIN reads :
        /\ logger = Logger("records", "records", "records", "records")
        /\ Succeeded(c)
        /\ Len(call[c].events) = 2
        /\ Len(logs.call[c].calls) = 4
        /\ logs.call[c].calls[1].msg = "Appending to stream"
        /\ logs.call[c].calls[1].data.eventTypes
               = <<"UserRegistered", "UserEmailChanged">>
        /\ logs.call[c].calls[4].msg = "Append completed"
        /\ reads[r].pc = "done"
        /\ reads[r].streamName = call[c].streamName
        /\ Len(logs.read[r].calls) = 2
        /\ logs.read[r].calls[2].msg = "Stream read completed"
        /\ logs.read[r].calls[2].data.eventCount = 2

\* the string is exactly PadWidth decimal digits
TenDigits(key) ==
    /\ Len(key) = PadWidth
    /\ \A i \in 1..Len(key) : \E d \in 1..Len(DigitChars) : key[i] = DigitChars[d]

(***************************************************************************)
(* C26: for all integers a, b with 0 <= a < b <= 9,999,999,999,            *)
(* padVersion(a) and padVersion(b) are each exactly 10 decimal digits, are *)
(* different strings, and padVersion(a) sorts before padVersion(b) in      *)
(* lexicographic order: distinct stream versions never share an event key  *)
(* and the order of the keys is the order of the versions.  (For the       *)
(* versions that fit both, the key computed on the number and the key      *)
(* computed on its two halves are the same.)                               *)
(***************************************************************************)
C26_PadVersionKeepsOrder ==
    padded.pc = "done" =>
        /\ TenDigits(padded.keyA)
        /\ TenDigits(padded.keyB)
        /\ padded.keyA # padded.keyB
        /\ NameLess(padded.keyA, padded.keyB)
        /\ ~NameLess(padded.keyB, padded.keyA)
        /\ \A v \in {padded.a, padded.b} :
               v.hi < 10000 =>
                   padVersion(v.hi * WideBase + v.lo) = padWideVersion(v.hi, v.lo)

\* 9 and 9,999,999,999 were padded: nine zeros before the 9, and ten nines
C26_Witness ==
    /\ padded.pc = "done"
    /\ padded.a = [hi |-> 0, lo |-> 9]
    /\ padded.b = [hi |-> 99999, lo |-> 99999]
    /\ padded.keyA = <<"0", "0", "0", "0", "0", "0", "0", "0", "0", "9">>
    /\ padded.keyB = <<"9", "9", "9", "9", "9", "9", "9", "9", "9", "9">>

(***************************************************************************)
(* C27: after clearFirestore(firestore) completes the Firestore instance   *)
(* holds no data: no stream metadata document, no event document and no    *)
(* counter document remains, and readStream on any stream returns the      *)
(* empty sequence.                                                         *)
(***************************************************************************)
C27_ClearFirestoreLeavesNoData ==
    (clearing.op = "clearFirestore" /\ clearing.pc = "done") =>
        /\ ~counterDoc.exists
        /\ \A s \in DOMAIN streamDocs :
               /\ ~streamDocs[s].exists
               /\ DOMAIN eventDocs[s] = {}
               /\ ReadStream(eventDocs, s, NoReadOptions) = <<>>

\* what clearFirestore does remove: the metadata documents and the counter
ClearFirestoreRemovesRootDocuments ==
    (clearing.op = "clearFirestore" /\ clearing.pc = "done") =>
        /\ ~counterDoc.exists
        /\ \A s \in DOMAIN streamDocs : ~streamDocs[s].exists

\* call c commits in this step
CommitsNow(c) ==
    /\ call[c].pc = "commit"
    /\ Len(commitLog') = Len(commitLog) + 1
    /\ commitLog'[Len(commitLog')].call = c

(***************************************************************************)
(* C28: within one append of k events that read counter value c (0 when    *)
(* the counter document is absent or has no value) and stream base version *)
(* b, the i-th input event (i from 0) is written with streamVersion        *)
(* b + 1 + i and globalPosition c + i, and the counter is written back as  *)
(* c + k in the same transaction.                                          *)
(***************************************************************************)
C28_BatchTakesConsecutiveVersionsAndPositions ==
    /\ [](CounterValue(NoDoc) = 0 /\ CounterValue([exists |-> TRUE]) = 0)
    /\ [][\A x \in DOMAIN call :
              CommitsNow(x) =>
                  LET me == call[x]
                      k == Len(me.events)
                      c == IF me.counterSnap.exists THEN me.counterSnap.value ELSE 0
                      b == IF me.streamDoc.exists THEN me.streamDoc.version ELSE -1
                      written == eventDocs'[me.streamName]
                  IN /\ \A i \in 0..(k - 1) :
                            /\ padVersion(b + 1 + i) \in DOMAIN written
                            /\ padVersion(b + 1 + i) \notin DOMAIN eventDocs[me.streamName]
                            /\ written[padVersion(b + 1 + i)].streamVersion = b + 1 + i
                            /\ written[padVersion(b + 1 + i)].globalPosition = c + i
                            /\ written[padVersion(b + 1 + i)].type = me.events[i + 1].type
                            /\ written[padVersion(b + 1 + i)].data = me.events[i + 1].data
                     /\ counterDoc'.exists
                     /\ counterDoc'.value = c + k
                     /\ CounterValue(counterDoc) = c]_vars

\* a batch of two events was committed on a stream that held one event, after
\* the counter had reached 1: versions 1 and 2, positions 1 and 2, counter 3
C28_Witness ==
    \E x \in DOMAIN call, s \in Streams :
        /\ Succeeded(x)
        /\ call[x].streamName = s
        /\ Len(call[x].events) = 2
        /\ Len(commitLog) = 2
        /\ commitLog[2].call = x
        /\ commitLog[1].streamName = s
        /\ eventDocs[s][padVersion(1)].globalPosition = 1
        /\ eventDocs[s][padVersion(2)].globalPosition = 2
        /\ eventDocs[s][padVersion(2)].data = call[x].events[2].data
        /\ counterDoc.value = 3

\* every event document of the store, as <<stream, key>>
AllEventKeys ==
    UNION {{<<s, k>> : k \in DOMAIN eventDocs[s]} : s \in DOMAIN eventDocs}

(***************************************************************************)
(* C29: in every reachable state of the event store the global counter's   *)
(* value equals the total number of event documents, and the               *)
(* globalPosition values of the event documents are exactly 0..value-1,    *)
(* with no gap and no duplicate: the first event ever appended has         *)
(* globalPosition 0.  (An absent counter counts as 0.)                     *)
(***************************************************************************)
C29_CounterCountsTheEvents ==
    /\ counterDoc.exists => "value" \in DOMAIN counterDoc
    /\ Cardinality(AllEventKeys) = CounterValue(counterDoc)
    /\ {eventDocs[e[1]][e[2]].globalPosition : e \in AllEventKeys}
           = 0..(CounterValue(counterDoc) - 1)
    /\ \A e, f \in AllEventKeys :
           eventDocs[e[1]][e[2]].globalPosition = eventDocs[f[1]][f[2]].globalPosition
               => e = f

\* three events in two streams: the counter is 3 and the positions are 0, 1, 2
C29_Witness ==
    /\ counterDoc.exists
    /\ counterDoc.value = 3
    /\ \A s \in Streams : DOMAIN eventDocs[s] # {}
    /\ \E s \in Streams : eventDocs[s][padVersion(0)].globalPosition = 2

\* the calls that were made on NewStream expecting it not to exist
Creators ==
    {c \in DOMAIN call :
        /\ call[c].pc # "idle"
        /\ call[c].streamName = NewStream
        /\ call[c].options = STREAM_DOES_NOT_EXIST}

\* the calls whose events are among the event documents of NewStream
Stored ==
    {c \in DOMAIN call :
        \E k \in DOMAIN eventDocs[NewStream], i \in DOMAIN call[c].events :
            eventDocs[NewStream][k].data = call[c].events[i].data}

(***************************************************************************)
(* C30: of N concurrent appends to the same stream that does not exist     *)
(* yet, all specifying STREAM_DOES_NOT_EXIST, at most one succeeds and     *)
(* creates the stream; the events of every failing call are absent from    *)
(* the stream, and the global counter advances only by the batch size of   *)
(* the winner.                                                             *)
(***************************************************************************)
C30_OneCreatorWins ==
    LET winners == {c \in Creators : Succeeded(c)}
    IN /\ Cardinality(winners) <= 1
       /\ \A c \in winners : call[c].result.value.createdNewStream
       /\ \A c \in Creators : Failed(c) => c \notin Stored
       /\ Stored \subseteq winners
       /\ \A c \in winners :
              /\ Cardinality(DOMAIN eventDocs[NewStream]) = Len(call[c].events)
              /\ CounterValue(counterDoc) = Len(call[c].events)
       /\ winners = {} =>
              /\ CounterValue(counterDoc) = 0
              /\ DOMAIN eventDocs[NewStream] = {}

\* three calls were made before the stream existed: the one with two events
\* created it, the two others failed with a version conflict, and the counter
\* is 2
C30_Witness ==
    \E w \in Creators :
        /\ Succeeded(w)
        /\ Len(call[w].events) = 2
        /\ CounterValue(counterDoc) = 2
        /\ \A c \in DOMAIN call \ {w} :
               /\ VersionConflict(c)
               /\ ghost[c].startVersion = STREAM_DOES_NOT_EXIST
               /\ ghost[c].prior = {}
               /\ Len(call[c].events) = 1
        /\ Cardinality(DOMAIN call) = 3

(***************************************************************************)
(* C31  Concurrent appends to one stream that use NO_CONCURRENCY_CHECK lose *)
(* and overwrite nothing: every append that has returned success has all    *)
(* its events in the stream, at consecutive versions ending at the version  *)
(* it returned; no two successful appends to the stream return the same     *)
(* nextExpectedStreamVersion; and the stored version is the version before  *)
(* the appends (-1: the stream did not exist) plus the number of events of  *)
(* the successful appends.                                                  *)
(***************************************************************************)
\* the call was made without a version check
NoCheck(c) == call[c].options \in {Omitted, NO_CONCURRENCY_CHECK}

\* the appends to the stream that have returned success
SucceededOn(streamName) ==
    {c \in DOMAIN call : Succeeded(c) /\ call[c].streamName = streamName}

\* the number of events of the calls of S
RECURSIVE TotalEvents(_)
TotalEvents(S) ==
    IF S = {} THEN 0
    ELSE LET c == CHOOSE x \in S : TRUE
         IN Len(call[c].events) + TotalEvents(S \ {c})

C31_UncheckedAppendsLoseNothing ==
    \A s \in DOMAIN streamDocs :
        /\ \A c \in SucceededOn(s) :
               NoCheck(c) =>
                   \A i \in 1..Len(call[c].events) :
                       LET version == FirstVersion(c) + i - 1
                       IN /\ padVersion(version) \in DOMAIN eventDocs[s]
                          /\ eventDocs[s][padVersion(version)].streamVersion = version
                          /\ eventDocs[s][padVersion(version)].type
                                 = call[c].events[i].type
                          /\ eventDocs[s][padVersion(version)].data
                                 = call[c].events[i].data
        /\ \A c, d \in SucceededOn(s) :
               c # d => ReturnedVersion(c) # ReturnedVersion(d)
        /\ StoredVersion(streamDocs[s]) = -1 + TotalEvents(SucceededOn(s))
        /\ Cardinality(DOMAIN eventDocs[s]) = TotalEvents(SucceededOn(s))

\* two appends of two events each, neither with a version check, were in
\* flight together on one stream and both have succeeded
C31_Witness ==
    \E c, d \in DOMAIN call :
        /\ c # d
        /\ Succeeded(c) /\ Succeeded(d)
        /\ NoCheck(c) /\ NoCheck(d)
        /\ call[c].streamName = call[d].streamName
        /\ c \notin ghost[d].prior /\ d \notin ghost[c].prior
        /\ Len(call[c].events) = 2 /\ Len(call[d].events) = 2
        /\ StoredVersion(streamDocs[call[c].streamName]) = 3

(***************************************************************************)
(* C32  A stream that a successful append has created is never deleted and  *)
(* its stored version never decreases: the step in which an append succeeds *)
(* raises the version of its stream by exactly the batch size, and every    *)
(* other step of the event store (a read of an append, a rejected append, a *)
(* refused commit, readStream, aggregateStream) leaves the stream's         *)
(* metadata as it was.                                                      *)
(***************************************************************************)
\* the appends to the stream that succeed in this step
SucceedsNowOn(streamName) ==
    {c \in DOMAIN call :
        ~Done(c) /\ Succeeded(c)' /\ call[c].streamName = streamName}

C32_StreamVersionOnlyGrowsByAppends ==
    [][\A s \in DOMAIN streamDocs :
          /\ streamDocs[s].exists => streamDocs'[s].exists
          /\ StoredVersion(streamDocs'[s]) >= StoredVersion(streamDocs[s])
          /\ IF SucceedsNowOn(s) = {}
                 THEN streamDocs'[s] = streamDocs[s]
                 ELSE \E c \in SucceedsNowOn(s) :
                          /\ SucceedsNowOn(s) = {c}
                          /\ Len(call[c].events) >= 1
                          /\ streamDocs'[s].exists
                          /\ StoredVersion(streamDocs'[s])
                                 = StoredVersion(streamDocs[s]) + Len(call[c].events)]_vars

\* a stream was created, appended to again and then read: it stands at the
\* version the two appends gave it
C32_Witness ==
    \E s \in DOMAIN streamDocs, r \in DOMAIN reads :
        /\ Cardinality(SucceededOn(s)) = 2
        /\ \E c \in SucceededOn(s) : call[c].result.value.createdNewStream
        /\ reads[r].pc = "done"
        /\ reads[r].streamName = s
        /\ reads[r].at = 2
        /\ StoredVersion(streamDocs[s]) = -1 + TotalEvents(SucceededOn(s))
        /\ StoredVersion(streamDocs[s]) >= 2

(***************************************************************************)
(* C33  Within one stream globalPosition is strictly increasing in          *)
(* streamVersion: of any two events of a stream, the one with the smaller   *)
(* streamVersion has the smaller globalPosition, after any sequence or      *)
(* interleaving of appends to any streams.                                  *)
(***************************************************************************)
C33_GlobalPositionGrowsWithStreamVersion ==
    \A s \in DOMAIN eventDocs :
        \A a, b \in DOMAIN eventDocs[s] :
            eventDocs[s][a].streamVersion < eventDocs[s][b].streamVersion
                => eventDocs[s][a].globalPosition < eventDocs[s][b].globalPosition

\* two appends to one stream with an append to another stream committed in
\* between: consecutive stream versions whose global positions are not
\* consecutive
C33_Witness ==
    \E s \in DOMAIN eventDocs :
        \E a, b \in DOMAIN eventDocs[s] :
            /\ eventDocs[s][b].streamVersion = eventDocs[s][a].streamVersion + 1
            /\ eventDocs[s][b].globalPosition > eventDocs[s][a].globalPosition + 1
            /\ Len(commitLog) = 3
            /\ commitLog[1].streamName = s
            /\ commitLog[2].streamName # s
            /\ commitLog[3].streamName = s

(***************************************************************************)
(* C34  createdAt of a stream is set by the append that creates the stream  *)
(* and no later append changes it; updatedAt is overwritten by every        *)
(* successful append, with the timestamp that is stamped on all the events  *)
(* of that append's batch.                                                  *)
(***************************************************************************)
C34_CreatedAtKeptUpdatedAtStamped ==
    [][\A s \in DOMAIN streamDocs :
          IF SucceedsNowOn(s) = {}
              THEN streamDocs[s].exists =>
                       /\ streamDocs'[s].createdAt = streamDocs[s].createdAt
                       /\ streamDocs'[s].updatedAt = streamDocs[s].updatedAt
              ELSE \A c \in SucceedsNowOn(s) :
                       LET written == DOMAIN eventDocs'[s] \ DOMAIN eventDocs[s]
                           now == streamDocs'[s].updatedAt
                       IN /\ Cardinality(written) = Len(call[c].events)
                          /\ \A k \in written : eventDocs'[s][k].timestamp = now
                          /\ now = call[c].writes.metadata.updatedAt
                          /\ streamDocs'[s].createdAt =
                                 IF streamDocs[s].exists
                                     THEN streamDocs[s].createdAt ELSE now
                          /\ call'[c].result.value.createdNewStream
                                 = ~streamDocs[s].exists]_vars

\* a stream created at one time and appended to at another: createdAt is the
\* time on the first batch, updatedAt the time on both events of the second
C34_Witness ==
    \E s \in DOMAIN streamDocs :
        /\ streamDocs[s].exists
        /\ streamDocs[s].createdAt # streamDocs[s].updatedAt
        /\ Len(commitLog) = 2
        /\ commitLog[1].streamName = s /\ commitLog[2].streamName = s
        /\ Cardinality(commitLog[2].keys) = 2
        /\ \A k \in commitLog[1].keys :
               eventDocs[s][k].timestamp = streamDocs[s].createdAt
        /\ \A k \in commitLog[2].keys :
               eventDocs[s][k].timestamp = streamDocs[s].updatedAt

(***************************************************************************)
(* C35  The currentStreamVersion that an unbounded aggregateStream reports  *)
(* is accepted as the exact expectedStreamVersion of an append that follows *)
(* at once (no writer in between) if and only if the stream exists: for a   *)
(* stream that was never appended to the reported value is 0, and the       *)
(* append is rejected with ExpectedVersionConflictError whose actual is the *)
(* does-not-exist sentinel.                                                 *)
(***************************************************************************)
\* the appends that passed an aggregated version, and have settled
Followers == {c \in DOMAIN call : Done(c) /\ call[c].options.tag = "bigint"}

C35_AggregatedVersionAcceptedIffStreamExists ==
    \A c \in Followers, r \in DOMAIN reads :
        LET s == call[c].streamName
            reported == reads[r].result.value
            existed == ghost[c].startVersion # STREAM_DOES_NOT_EXIST
        IN /\ reads[r].streamName = s
           /\ call[c].options = BigInt(reported.currentStreamVersion)
           /\ reported.streamExists = existed
           /\ Succeeded(c) <=> existed
           /\ existed =>
                  /\ ghost[c].startVersion = BigInt(reported.currentStreamVersion)
                  /\ ReturnedVersion(c)
                         = reported.currentStreamVersion + Len(call[c].events)
           /\ ~existed =>
                  /\ reported.currentStreamVersion = 0
                  /\ call[c].result =
                         Rejected(ExpectedVersionConflictError(
                             s, BigInt(0), STREAM_DOES_NOT_EXIST))
                  /\ ~streamDocs[s].exists
                  /\ eventDocs[s] = <<>>

\* the 0 aggregated from a stream nobody had appended to was passed to an
\* append, which was rejected, while the other stream held events
C35_Witness ==
    \E c \in Followers :
        /\ VersionConflict(c)
        /\ call[c].options = BigInt(0)
        /\ counterDoc.exists
        /\ \E s \in DOMAIN streamDocs : streamDocs[s].exists

\* the version aggregated from a stream of two events was passed to an
\* append of two events, which was accepted
AggregatedVersionWasAccepted ==
    \E c \in Followers :
        /\ Succeeded(c)
        /\ call[c].options = BigInt(1)
        /\ ReturnedVersion(c) = 3

(***************************************************************************)
(* C36  aggregateStream with a read range that matches no event of an       *)
(* existing, non-empty stream (from beyond the head version, or from above  *)
(* to) reports streamExists = false, currentStreamVersion = 0 and state =   *)
(* initialState(): the same result as for a stream that was never created.  *)
(***************************************************************************)
\* a store in which no stream was ever created
NeverCreated == [s \in DOMAIN eventDocs |-> <<>>]

C36_EmptyRangeLooksLikeNoStream ==
    [][\A r \in DOMAIN reads :
          ReadNow(r, "aggregateStream") =>
              LET s == reads'[r].streamName
                  evolve == reads'[r].options.evolve
                  read == reads'[r].options.read
              IN (/\ streamDocs[s].exists
                  /\ DOMAIN eventDocs[s] # {}
                  /\ InRange(eventDocs[s], ReadOrDefault(read)) = {})
                     => /\ reads'[r].result =
                               Fulfilled([state |-> InitialState(evolve),
                                          currentStreamVersion |-> 0,
                                          streamExists |-> FALSE])
                        /\ reads'[r].result =
                               Fulfilled(AggregateStream(NeverCreated, s,
                                                         evolve, read))]_vars

\* a stream of two events was aggregated from version 2 on: it is reported
\* as not existing, at version 0
C36_Witness ==
    \E r \in DOMAIN reads :
        /\ reads[r].pc = "done"
        /\ reads[r].op = "aggregateStream"
        /\ reads[r].options.read = ReadOptions(Some(2), Undefined, Undefined)
        /\ reads[r].at = Len(commitLog)
        /\ StoredVersion(streamDocs[reads[r].streamName]) = 1
        /\ Cardinality(DOMAIN eventDocs[reads[r].streamName]) = 2
        /\ ~reads[r].result.value.streamExists
        /\ reads[r].result.value.currentStreamVersion = 0

(***************************************************************************)
(* C37  In every event that readStream returns, the metadata fields         *)
(* streamName, streamVersion, streamPosition, globalPosition and timestamp  *)
(* hold the values the store assigned, also when the metadata of the event  *)
(* as it was appended had entries of those names: the user's metadata never *)
(* overrides them, and every other entry of it is returned unchanged.       *)
(***************************************************************************)
StoreAssigned ==
    {"streamName", "streamVersion", "streamPosition", "globalPosition",
     "timestamp"}

\* the metadata of an event as it was passed to appendToStream
OwnMetadata(event) ==
    IF "metadata" \in DOMAIN event THEN event.metadata ELSE <<>>

\* the successful append that wrote the version, and the event it passed
AppendedAs(streamName, version) ==
    LET c == CHOOSE x \in SucceededOn(streamName) :
                 FirstVersion(x) <= version /\ version <= ReturnedVersion(x)
    IN call[c].events[version - FirstVersion(c) + 1]

C37_UserMetadataNeverOverridesStoreFields ==
    [][\A r \in DOMAIN reads :
          ReadNow(r, "readStream") =>
              LET s == reads'[r].streamName
                  events == reads'[r].result.value
              IN \A i \in 1..Len(events) :
                     LET metadata == events[i].metadata
                         version == metadata.streamVersion
                         doc == eventDocs[s][padVersion(version)]
                         own == OwnMetadata(AppendedAs(s, version))
                     IN /\ metadata.streamName = s
                        /\ version \in 0..StoredVersion(streamDocs[s])
                        /\ padVersion(version) \in DOMAIN eventDocs[s]
                        /\ version = doc.streamVersion
                        /\ metadata.streamPosition = version
                        /\ metadata.globalPosition = doc.globalPosition
                        /\ metadata.globalPosition \in 0..(counterDoc.value - 1)
                        /\ metadata.timestamp = doc.timestamp
                        /\ metadata.timestamp \in Times
                        /\ DOMAIN metadata = StoreAssigned \cup DOMAIN own
                        /\ \A f \in DOMAIN own \ StoreAssigned :
                               metadata[f] = own[f]]_vars

\* an event that was appended with metadata naming all five fields and a
\* field of the user's was read back: the user's field is there, and the
\* five are the store's
C37_Witness ==
    \E r \in DOMAIN reads :
        /\ reads[r].pc = "done"
        /\ reads[r].op = "readStream"
        /\ reads[r].result.status = "fulfilled"
        /\ \E i \in 1..Len(reads[r].result.value) :
               LET metadata == reads[r].result.value[i].metadata
               IN /\ "tenant" \in DOMAIN metadata
                  /\ metadata.tenant = 5
                  /\ metadata.streamVersion = 2
                  /\ metadata.streamName = NewStream
                  /\ \E c \in DOMAIN call :
                         /\ Succeeded(c)
                         /\ "metadata" \in DOMAIN call[c].events[1]
                         /\ StoreAssigned \subseteq DOMAIN call[c].events[1].metadata
                         /\ FirstVersion(c) = 2

(***************************************************************************)
(* C38  deleteCollection on a collection nobody is writing to ends after    *)
(* finitely many delete batches; resolve or reject is called on its promise *)
(* exactly once; when the promise is resolved the collection holds no       *)
(* document; and when a query or a batch commit fails the promise is        *)
(* rejected with that error and is not resolved.                            *)
(***************************************************************************)
\* the promises of the deleteCollection calls made so far
Promises == {clearing.promises[i] : i \in 1..Len(clearing.promises)}

DeleteCollectionSettled == clearing.pc \in {"done", "failed"}

\* at most one call of resolve or reject; a resolved promise belongs to an
\* empty collection, emptied in ceil(size / batchSize) batches
SettledOnceAndEmpty ==
    /\ \A i \in 1..Len(clearing.promises) :
           LET p == clearing.promises[i]
           IN /\ Len(p.settlements) <= 1
              /\ i < Len(clearing.promises) => p.settlements = <<Resolved>>
              /\ i = Len(clearing.promises) =>
                     (Len(p.settlements) = 1 <=> DeleteCollectionSettled)
              /\ p.batches <= p.size
              /\ p.settlements = <<Resolved>> =>
                     /\ CollectionDocs(p.collection) = <<>>
                     /\ p.batches * clearing.batchSize >= p.size
                     /\ (p.batches - 1) * clearing.batchSize < p.size
    /\ clearing.pc = "failed" =>
           Running(clearing.promises).settlements
               \in {<<Rejected(QueryError)>>, <<Rejected(CommitError)>>}
    /\ clearing.pc = "delete" => Running(clearing.promises).settlements = <<>>

\* a rejection is the catch block's, and nothing is deleted in that step; a
\* settled promise stays as it is
RejectedWithTheError ==
    /\ (clearing.pc = "delete" /\ clearing'.pc = "failed") =>
           /\ Len(clearing'.promises) = Len(clearing.promises)
           /\ Running(clearing'.promises).settlements[1].status = "rejected"
           /\ UNCHANGED <<streamDocs, eventDocs, counterDoc>>
    /\ \A i \in 1..Len(clearing.promises) :
           clearing.promises[i].settlements # <<>> =>
               /\ i <= Len(clearing'.promises)
               /\ clearing'.promises[i] = clearing.promises[i]

C38_DeleteCollectionEndsAndSettlesOnce ==
    /\ []SettledOnceAndEmpty
    /\ [][RejectedWithTheError]_vars
    /\ (clearing.pc = "delete") ~> DeleteCollectionSettled

\* deleteCollection('streams', 1) on a store with two streams has resolved
\* after two batches
C38_Witness ==
    /\ clearing.op = "deleteCollection"
    /\ clearing.pc = "done"
    /\ clearing.batchSize = 1
    /\ \E p \in Promises :
           /\ p.collection = "streams"
           /\ p.size = 2
           /\ p.batches = 2
           /\ p.settlements = <<Resolved>>
    /\ counterDoc.exists

\* a batch commit failed after one batch had been deleted: the promise is
\* rejected with the commit's error
DeleteCollectionWasRejected ==
    /\ clearing.pc = "failed"
    /\ \E p \in Promises :
           /\ p.batches = 1
           /\ p.settlements = <<Rejected(CommitError)>>

(***************************************************************************)
(* C39  getCurrentStreamVersion returns the does-not-exist sentinel exactly *)
(* when the stream record is absent; for an existing record it returns the  *)
(* stored version, and -1 when the record has no version field.  An append  *)
(* then treats the stream as existing: STREAM_EXISTS passes,                *)
(* STREAM_DOES_NOT_EXIST fails, createdNewStream is false, and the first    *)
(* event is written at version 0.                                           *)
(***************************************************************************)
\* the record exists and has no version field
Unversioned(streamDoc) == streamDoc.exists /\ "version" \notin DOMAIN streamDoc

\* what getCurrentStreamVersion returns for each stream record of the store
CurrentVersionOfEachRecord ==
    \A s \in DOMAIN streamDocs :
        LET current == getCurrentStreamVersion(streamDocs[s].exists,
                                               SnapshotVersion(streamDocs[s]))
        IN /\ current = STREAM_DOES_NOT_EXIST <=> ~streamDocs[s].exists
           /\ streamDocs[s].exists =>
                  current = BigInt(IF Unversioned(streamDocs[s])
                                       THEN -1 ELSE streamDocs[s].version)

\* a call reads an unversioned record: the version check; and the commit of a
\* call that read one
AppendToUnversionedStream ==
    \A c \in DOMAIN call :
        LET s == call[c].streamName
            expected == call[c].expectedStreamVersion
        IN /\ (call[c].pc = "getStream" /\ call'[c].pc # "getStream"
                  /\ Unversioned(streamDocs[s])) =>
                  /\ expected \in {NO_CONCURRENCY_CHECK, STREAM_EXISTS}
                         => call'[c].pc = "getCounter"
                  /\ expected \notin {NO_CONCURRENCY_CHECK, STREAM_EXISTS}
                         => call'[c].result =
                                Rejected(ExpectedVersionConflictError(
                                    s, expected, BigInt(-1)))
           /\ (CommitsNow(c) /\ Unversioned(streamDocs[s])) =>
                  /\ call'[c].result.value.createdNewStream = FALSE
                  /\ call'[c].result.value.nextExpectedStreamVersion
                         = Len(call[c].events) - 1
                  /\ DOMAIN eventDocs'[s] =
                         {padVersion(v) : v \in 0..(Len(call[c].events) - 1)}
                  /\ eventDocs'[s][padVersion(0)].streamVersion = 0
                  /\ eventDocs'[s][padVersion(0)].data = call[c].events[1].data
                  /\ streamDocs'[s].version = Len(call[c].events) - 1
                  /\ streamDocs'[s].createdAt = streamDocs[s].createdAt

C39_UnversionedRecordCountsAsExisting ==
    /\ []CurrentVersionOfEachRecord
    /\ [][AppendToUnversionedStream]_vars

\* an append of two events that required the stream to exist has succeeded
\* on the unversioned record, and one that required it not to exist has failed
C39_Witness ==
    \E c, d \in DOMAIN call :
        /\ call[c].streamName = UnversionedStream
        /\ call[c].options = STREAM_EXISTS
        /\ ghost[c].startVersion = BigInt(-1)
        /\ Succeeded(c)
        /\ ~call[c].result.value.createdNewStream
        /\ ReturnedVersion(c) = 1
        /\ call[d].streamName = UnversionedStream
        /\ call[d].options = STREAM_DOES_NOT_EXIST
        /\ ghost[d].startVersion = BigInt(-1)
        /\ VersionConflict(d)
        /\ call[d].result.reason.actual = BigInt(-1)

(***************************************************************************)
(* C40  calculateNextVersion(current, k) returns k - 1 when current is the  *)
(* does-not-exist sentinel and current + k otherwise, and for every current *)
(* version and every batch size k >= 1 that is the                          *)
(* nextExpectedStreamVersion appendToStream returns for a stream in that    *)
(* state.                                                                   *)
(***************************************************************************)
\* the function on the current version of every stream of the store
CalculateNextVersionTable ==
    \A s \in DOMAIN streamDocs, k \in 1..MaxBatch :
        LET current == CurrentVersion(streamDocs[s])
        IN calculateNextVersion(current, k) =
               IF current = STREAM_DOES_NOT_EXIST
                   THEN BigInt(k - 1)
                   ELSE BigInt(StoredVersion(streamDocs[s]) + k)

\* the append that succeeds in this step returns what the function gives for
\* the version its stream had and the size of its batch
AppendReturnsCalculatedVersion ==
    \A c \in DOMAIN call :
        CommitsNow(c) =>
            /\ Len(call[c].events) >= 1
            /\ BigInt(call'[c].result.value.nextExpectedStreamVersion) =
                   calculateNextVersion(
                       CurrentVersion(streamDocs[call[c].streamName]),
                       Len(call[c].events))
            /\ CurrentVersion(streamDocs'[call[c].streamName]) =
                   calculateNextVersion(
                       CurrentVersion(streamDocs[call[c].streamName]),
                       Len(call[c].events))

C40_CalculateNextVersionIsWhatAppendReturns ==
    /\ []CalculateNextVersionTable
    /\ [][AppendReturnsCalculatedVersion]_vars

\* an append of two events created a stream and returned 1, the value for
\* the sentinel; a second one found version 1 and returned 3
C40_Witness ==
    \E c, d \in DOMAIN call :
        /\ Succeeded(c) /\ Succeeded(d)
        /\ call[c].streamName = call[d].streamName
        /\ call[c].result.value.createdNewStream
        /\ ghost[c].startVersion = STREAM_DOES_NOT_EXIST
        /\ ReturnedVersion(c) = calculateNextVersion(STREAM_DOES_NOT_EXIST, 2).n
        /\ ReturnedVersion(c) = 1
        /\ ~call[d].result.value.createdNewStream
        /\ ReturnedVersion(d) = calculateNextVersion(BigInt(1), 2).n
        /\ ReturnedVersion(d) = 3

====
